---- MODULE Spec2Model ----
(***************************************************************************)
(* SafeCity: the proximity / safety-query subsystem.                       *)
(*                                                                         *)
(* Server side: routes/incidents.js (GET /nearby, GET /recent, POST /),    *)
(* the moderation routes of routes/admin.js, the sanitizeInput middleware  *)
(* and the database connection middleware of app.js.                       *)
(* Client side: analyzeLocation / calculateSafetyLevel of                  *)
(* public/js/safety.js.                                                    *)
(*                                                                         *)
(* Numbers.  JavaScript doubles are modelled by integers; NaN is a         *)
(* distinguished value on which every comparison is false.  Angles and     *)
(* the values of sin, cos, sqrt and atan2 are fixed-point numbers with     *)
(* four decimals (One = 1.0).  Coordinates are whole degrees, times are    *)
(* milliseconds, distances are metres.                                     *)
(*                                                                         *)
(* Text.  A query-string value is a sequence of one-character strings;     *)
(* Undefined stands for a parameter that is not in the query string.  The  *)
(* alphabet has digits, "-", " ", letters and "T"; it has no "." and no    *)
(* exponent, so every number that can be written is a whole number.  An    *)
(* ISO-8601 instant is written "T" followed by the decimal milliseconds   *)
(* since the epoch.                                                        *)
(***************************************************************************)
EXTENDS Integers, Sequences, FiniteSets, TLC

VARIABLES
    now,        \* the wall clock, Date.now(), in ms
    ticks,      \* how many times the clock has advanced
    incidents,  \* the Incident collection: a sequence of documents, _id = index
    readyState, \* mongoose.connection.readyState (1 = connected)
    mongoURI,   \* whether process.env.MONGODB_URI is set
    dbConnectionPromise, \* the value dbConnectionPromise resolves to
    reqs,       \* the HTTP requests to /api/incidents/nearby and /recent
    analysis,   \* the browser's click-to-analyze state (safety.js)
    migration,  \* a run of the initializeDatabase script
    users,      \* the User collection: userId -> document
    logins,     \* the POST /api/auth/login requests in flight
    failedLogins,\* per account, the failed logins answered since the last successful login
    alerts      \* the page's real-time alerts (startRealTimeAlerts in safety.js)

vars ==
    <<now, ticks, incidents, readyState, mongoURI, dbConnectionPromise, reqs, analysis,
      migration, users, logins, failedLogins, alerts>>

---------------------------------------------------------------------------
(* Bounds *)

MaxIncidents == 2
MaxTicks == 1
MaxListLen == 4
MaxFailedLogins == 6

---------------------------------------------------------------------------
(* Numbers *)

NaN == 0 - 2000000000
IsNaN(x) == x = NaN

\* JavaScript's relational operators: false as soon as an operand is NaN.
Lt(a, b) == ~IsNaN(a) /\ ~IsNaN(b) /\ a < b
Gt(a, b) == ~IsNaN(a) /\ ~IsNaN(b) /\ a > b
Le(a, b) == ~IsNaN(a) /\ ~IsNaN(b) /\ a <= b
Ge(a, b) == ~IsNaN(a) /\ ~IsNaN(b) /\ a >= b

Abs(x) == IF x < 0 THEN 0 - x ELSE x
Sgn(x) == IF x < 0 THEN 0 - 1 ELSE 1
\* division that rounds toward zero
DivT(a, b) == Sgn(a) * (Abs(a) \div b)

One == 10000
MathPI == 31416
HalfPI == MathPI \div 2
FixMul(a, b) == DivT(a * b, One)

\* sin on [0, pi/2]: x - x^3/3! + x^5/5! - x^7/7! + x^9/9!
SinKernel(x) ==
    LET x2 == FixMul(x, x)
        t3 == FixMul(x, x2) \div 6
        t5 == FixMul(t3, x2) \div 20
        t7 == FixMul(t5, x2) \div 42
        t9 == FixMul(t7, x2) \div 72
    IN  x - t3 + t5 - t7 + t9

MathSin(x) ==
    LET m == Abs(x) % (2 * MathPI)
        h == IF m > MathPI THEN m - MathPI ELSE m
        s == IF m > MathPI THEN 0 - Sgn(x) ELSE Sgn(x)
        q == IF h > HalfPI THEN MathPI - h ELSE h
    IN  s * SinKernel(q)

MathCos(x) == MathSin(x + HalfPI)

RECURSIVE SqrtSearch(_, _, _)
SqrtSearch(n, lo, hi) ==
    IF lo >= hi THEN lo
    ELSE LET mid == (lo + hi + 1) \div 2
         IN  IF mid * mid <= n THEN SqrtSearch(n, mid, hi)
             ELSE SqrtSearch(n, lo, mid - 1)

\* Math.sqrt: NaN below zero
MathSqrt(a) ==
    IF IsNaN(a) \/ a < 0 THEN NaN ELSE SqrtSearch(a * One, 0, 2 * One)

RECURSIVE AtanSearch(_, _, _, _)
AtanSearch(y, x, lo, hi) ==
    IF lo >= hi THEN lo
    ELSE LET mid == (lo + hi + 1) \div 2
         IN  IF y * MathCos(mid) - x * MathSin(mid) >= 0
             THEN AtanSearch(y, x, mid, hi)
             ELSE AtanSearch(y, x, lo, mid - 1)

\* Math.atan2 for y >= 0, x >= 0 (the only quadrant calculateDistance uses)
MathAtan2(y, x) ==
    IF IsNaN(y) \/ IsNaN(x) THEN NaN ELSE AtanSearch(y, x, 0, HalfPI)

\* Earth's radius R = 6371e3 m, kept in km so that R * c stays in range
EarthRadiusKm == 6371

\* mutant: Math.cos(phi1) * Math.cos(phi1)
calculateDistanceSkew(lat1, lon1, lat2, lon2) ==
    IF IsNaN(lat1) \/ IsNaN(lon1) \/ IsNaN(lat2) \/ IsNaN(lon2) THEN NaN
    ELSE
    LET phi1 == DivT(lat1 * MathPI, 180)
        dphi == DivT((lat2 - lat1) * MathPI, 180)
        dlam == DivT((lon2 - lon1) * MathPI, 180)
        a == FixMul(MathSin(DivT(dphi, 2)), MathSin(DivT(dphi, 2)))
             + FixMul(FixMul(FixMul(MathCos(phi1), MathCos(phi1)),
                             MathSin(DivT(dlam, 2))),
                      MathSin(DivT(dlam, 2)))
        c == 2 * MathAtan2(MathSqrt(a), MathSqrt(One - a))
    IN  IF IsNaN(MathSqrt(One - a)) THEN NaN
        ELSE DivT(EarthRadiusKm * c, 10)

\* Haversine distance in metres between (lat1, lon1) and (lat2, lon2)
calculateDistance(lat1, lon1, lat2, lon2) ==
    IF IsNaN(lat1) \/ IsNaN(lon1) \/ IsNaN(lat2) \/ IsNaN(lon2) THEN NaN
    ELSE
    LET phi1 == DivT(lat1 * MathPI, 180)
        phi2 == DivT(lat2 * MathPI, 180)
        dphi == DivT((lat2 - lat1) * MathPI, 180)
        dlam == DivT((lon2 - lon1) * MathPI, 180)
        a == FixMul(MathSin(DivT(dphi, 2)), MathSin(DivT(dphi, 2)))
             + FixMul(FixMul(FixMul(MathCos(phi1), MathCos(phi2)),
                             MathSin(DivT(dlam, 2))),
                      MathSin(DivT(dlam, 2)))
        c == 2 * MathAtan2(MathSqrt(a), MathSqrt(One - a))
    IN  IF IsNaN(MathSqrt(One - a)) THEN NaN
        ELSE DivT(EarthRadiusKm * c, 10)

---------------------------------------------------------------------------
(* Text *)

Undefined == <<"undefined">>
DigitChars == <<"0", "1", "2", "3", "4", "5", "6", "7", "8", "9">>
IsDigit(ch) == \E d \in 1..10 : DigitChars[d] = ch
DigitValue(ch) == (CHOOSE d \in 1..10 : DigitChars[d] = ch) - 1

\* a falsy query value: the parameter is absent or the empty string
Falsy(s) == s = Undefined \/ s = <<>>

RECURSIVE TrimLeft(_)
TrimLeft(s) ==
    IF s # <<>> /\ Head(s) = " " THEN TrimLeft(Tail(s)) ELSE s

RECURSIVE TrimRight(_)
TrimRight(s) ==
    IF s # <<>> /\ s[Len(s)] = " " THEN TrimRight(SubSeq(s, 1, Len(s) - 1)) ELSE s

\* sanitizeString: the replace() patterns need "<", ":" or "=", which the
\* alphabet lacks, so what is left of it is trim()
sanitizeString(s) == IF s = Undefined THEN s ELSE TrimRight(TrimLeft(s))

\* sanitizeInput applied to req.query
sanitizeInput(query) == [k \in DOMAIN query |-> sanitizeString(query[k])]

RECURSIVE DigitPrefix(_)
DigitPrefix(s) ==
    IF s # <<>> /\ IsDigit(Head(s)) THEN <<Head(s)>> \o DigitPrefix(Tail(s)) ELSE <<>>

RECURSIVE DigitsValue(_)
DigitsValue(s) ==
    IF s = <<>> THEN 0 ELSE 10 * DigitsValue(SubSeq(s, 1, Len(s) - 1)) + DigitValue(s[Len(s)])

\* parseFloat: leading white space, an optional sign, the longest prefix of
\* digits; NaN when there is no digit
parseFloat(s) ==
    LET t == TrimLeft(s)
        neg == t # <<>> /\ Head(t) = "-"
        u == IF neg THEN Tail(t) ELSE t
        ds == DigitPrefix(u)
    IN  IF ds = <<>> THEN NaN
        ELSE IF neg THEN 0 - DigitsValue(ds) ELSE DigitsValue(ds)

RECURSIVE NatToString(_)
NatToString(n) ==
    IF n < 10 THEN <<DigitChars[n + 1]>>
    ELSE NatToString(n \div 10) \o <<DigitChars[(n % 10) + 1]>>

\* Number.prototype.toString of a whole number (template literals, defaults)
NumberToString(n) == IF n < 0 THEN <<"-">> \o NatToString(0 - n) ELSE NatToString(n)

\* Date.prototype.toISOString / toJSON
toISOString(t) == <<"T">> \o NatToString(t)

\* new Date(string): NaN is Invalid Date
DateParse(s) ==
    IF s # <<>> /\ Head(s) = "T" /\ Tail(s) # <<>> /\ DigitPrefix(Tail(s)) = Tail(s)
    THEN DigitsValue(Tail(s))
    ELSE NaN

---------------------------------------------------------------------------
(* Time *)

FiveMinutes == 5 * 60 * 1000
OneWeek == 7 * 24 * 60 * 60 * 1000

---------------------------------------------------------------------------
(* The Incident collection *)

ModerationStatus == {"pending", "approved", "rejected", "flagged"}

\* Res.json of a document: the Date becomes its ISO string
toJSON(doc) == [doc EXCEPT !.timestamp = toISOString(@)]

Range(s) == {s[i] : i \in DOMAIN s}

\* mutant: sort({ timestamp: 1 })
SortByTimestampAsc(docs) ==
    {s \in [1..Cardinality(docs) -> docs] :
        /\ \A i, j \in DOMAIN s : i # j => s[i] # s[j]
        /\ \A i, j \in DOMAIN s : i < j => s[i].timestamp <= s[j].timestamp}

\* the orders in which sort({ timestamp: -1 }) can return a set of documents:
\* latest first, documents of equal timestamp in any order
SortByTimestampDesc(docs) ==
    {s \in [1..Cardinality(docs) -> docs] :
        /\ \A i, j \in DOMAIN s : i # j => s[i] # s[j]
        /\ \A i, j \in DOMAIN s : i < j => s[i].timestamp >= s[j].timestamp}

\* mutant: Incident.find({})
findAll == Range(incidents)

\* Incident.find({ 'moderation.status': 'approved' })
findApproved == {d \in Range(incidents) : d.moderation = "approved"}

\* mutant: timestamp: { $gt: sinceDate }
findApprovedAfter(sinceDate) ==
    {d \in Range(incidents) : d.moderation = "approved" /\ d.timestamp > sinceDate}

\* mutant: the find() of the recent route has a .limit(1)
findApprovedSinceLimit(sinceDate) ==
    LET found == {d \in Range(incidents) :
                     d.moderation = "approved" /\ d.timestamp >= sinceDate}
    IN  {d \in found : \A e \in found :
            \/ d.timestamp > e.timestamp
            \/ (d.timestamp = e.timestamp /\ d.id <= e.id)}

\* Incident.find({ timestamp: { $gte: sinceDate }, 'moderation.status': 'approved' })
findApprovedSince(sinceDate) ==
    {d \in Range(incidents) : d.moderation = "approved" /\ d.timestamp >= sinceDate}

\* mutant: distance < searchRadius
withinRadiusStrict(latitude, longitude, searchRadius, incident) ==
    Lt(calculateDistance(latitude, longitude, incident.latitude, incident.longitude),
       searchRadius)

\* the filter callback of both routes: distance <= searchRadius
withinRadius(latitude, longitude, searchRadius, incident) ==
    Le(calculateDistance(latitude, longitude, incident.latitude, incident.longitude),
       searchRadius)

---------------------------------------------------------------------------
(* The User collection and the Authorization header *)

UserIds == {1, 2}
Roles == {"user", "moderator", "admin"}

\* lockUntil of a document that has none
NoDate == 0 - 1

\* a user document as signup stores it: the schema's defaults
NewUser ==
    [role |-> "user", isActive |-> TRUE, isBanned |-> FALSE,
     loginAttempts |-> 0, lockUntil |-> NoDate,
     banExpires |-> NoDate,
     \* consent.dataCollection, consent.dataProcessing
     dataCollection |-> FALSE, dataProcessing |-> FALSE,
     \* dataRetention.requestedDeletion
     requestedDeletion |-> FALSE,
     \* profile.reportsCount, profile.points
     reportsCount |-> 0, points |-> 0,
     \* the password (which of the passwords it is), resetOTP (0: none) and
     \* resetOTPExpires
     password |-> 0, resetOTP |-> 0, resetOTPExpires |-> NoDate]

\* an account after POST /api/auth/signup, which takes the consent of the body
SignedUp == [NewUser EXCEPT !.dataCollection = TRUE, !.dataProcessing = TRUE]

\* the accounts of the deployment: a moderator and a user
DefaultUsers ==
    [u \in UserIds |-> IF u = 1 THEN [SignedUp EXCEPT !.role = "moderator"] ELSE SignedUp]

\* the Authorization header: absent, not a Bearer token, a token that
\* jwt.verify rejects (malformed or expired), or a token it accepts, signed for
\* userId
NoToken == [kind |-> "none", userId |-> 0]
TokenKinds == {"none", "malformed", "expired", "valid"}

\* req.user = null
Anonymous == [userId |-> 0, role |-> "none"]

\* User.findById: the document, or null
NoDocument == [NewUser EXCEPT !.role = "none", !.isActive = FALSE]
findById(userId) == IF userId \in DOMAIN users THEN users[userId] ELSE NoDocument

\* document.save() of a loaded document: the update sets the paths whose
\* value differs from the one loaded, and leaves the others as stored
save(stored, loaded, user) ==
    [path \in DOMAIN stored |->
        IF user[path] # loaded[path] THEN user[path] ELSE stored[path]]

---------------------------------------------------------------------------
(* Requests *)

Reqs == {1}
DefaultRadius == 1000
AnalysisRadius == 1000

NoQuery == [lat |-> Undefined, lng |-> Undefined, radius |-> Undefined, since |-> Undefined]

IdleReq ==
    [pc |-> "idle", route |-> "none", origin |-> "none", query |-> NoQuery,
     latitude |-> 0, longitude |-> 0, searchRadius |-> 0, sinceDate |-> 0,
     dbOps |-> <<>>, status |-> 0, error |-> "", body |-> <<>>,
     \* history, for stating properties: the query string as sent, the clock at
     \* arrival, the collection at the instant of the find(), the list it gave
     sent |-> NoQuery, receivedAt |-> 0, collection |-> <<>>, fetched |-> <<>>,
     \* history: the route's find() rejected
     findRejected |-> FALSE,
     \* history: the distance the filter callback computed for each candidate
     distances |-> <<>>,
     \* GET /api/incidents: the Authorization header, req.user, whether the
     \* query of the find() is {}, and (history) the document optionalAuth found
     token |-> NoToken, user |-> Anonymous, queryAll |-> FALSE, found |-> NoDocument,
     \* /api/incidents/:id: req.params.id and req.body.title
     id |-> 0, title |-> "",
     \* the routes behind auth: role, duration, reason and consent of the body,
     \* the document the route loaded and the same document as the route
     \* changed it
     role |-> "none", duration |-> 0, reason |-> FALSE, consent |-> "none",
     loaded |-> NoDocument, doc |-> NoDocument,
     \* POST /api/incidents: what the body holds, and req.body.anonymous
     report |-> "none", anonymous |-> FALSE,
     \* history: requireConsent read both consents as true; the caller's stored
     \* requestedDeletion when the query of checkDeletionStatus settled
     consented |-> FALSE, deletionPending |-> FALSE,
     \* the password reset routes: email (as the id of its account), otp and
     \* newPassword of the body, 0 when missing
     email |-> 0, otp |-> 0, newPassword |-> 0]

\* res.status(code).json({ error: message })
Reply(req, code, message) ==
    [req EXCEPT !.pc = "done", !.status = code, !.error = message, !.body = <<>>]

\* connectDB(), called by the connection middleware when the first connection
\* failed and the connection is not ready; ok: mongoose.connect succeeds.
\* The database operations it starts, in order.
connectDBOps(ok) ==
    IF ~mongoURI THEN <<>>
    ELSE IF readyState = 1 THEN <<>>
    ELSE IF ok THEN <<"connect", "createIndexes">>
    ELSE <<"connect">>

\* the value connectDB() resolves to
connectDB(ok) ==
    IF ~mongoURI THEN FALSE
    ELSE IF readyState = 1 THEN TRUE
    ELSE ok

\* whether the connection middleware reconnects
mustReconnect == ~dbConnectionPromise /\ readyState # 1

\* the outcomes of mongoose.connect, when the middleware calls it
connectOutcomes == IF mustReconnect /\ mongoURI THEN BOOLEAN ELSE {FALSE}

\* mutant: only lat is required
nearbyHandlerLatOnly(req) ==
    LET lat == req.query.lat
        lng == req.query.lng
        radius == IF req.query.radius = Undefined THEN NumberToString(1000)
                  ELSE req.query.radius
        latitude == parseFloat(lat)
        longitude == parseFloat(lng)
        searchRadius == parseFloat(radius)
    IN  IF Falsy(lat)
        THEN Reply(req, 400, "Missing required parameters: lat, lng")
        ELSE IF Lt(latitude, 0 - 90) \/ Gt(latitude, 90)
                \/ Lt(longitude, 0 - 180) \/ Gt(longitude, 180)
        THEN Reply(req, 400, "Invalid coordinates")
        ELSE [req EXCEPT !.pc = "fetching", !.latitude = latitude,
                         !.longitude = longitude, !.searchRadius = searchRadius,
                         !.dbOps = @ \o <<"find">>]

\* mutant: the find() is started before the parameters are validated
nearbyHandlerFindFirst(req) ==
    LET lat == req.query.lat
        lng == req.query.lng
        radius == IF req.query.radius = Undefined THEN NumberToString(1000)
                  ELSE req.query.radius
        latitude == parseFloat(lat)
        longitude == parseFloat(lng)
        searchRadius == parseFloat(radius)
        started == [req EXCEPT !.dbOps = @ \o <<"find">>]
    IN  IF Falsy(lat) \/ Falsy(lng)
        THEN Reply(started, 400, "Missing required parameters: lat, lng")
        ELSE IF Lt(latitude, 0 - 90) \/ Gt(latitude, 90)
                \/ Lt(longitude, 0 - 180) \/ Gt(longitude, 180)
        THEN Reply(started, 400, "Invalid coordinates")
        ELSE [started EXCEPT !.pc = "fetching", !.latitude = latitude,
                             !.longitude = longitude, !.searchRadius = searchRadius]

\* router.get('/nearby'), up to its first await
nearbyHandler(req) ==
    LET lat == req.query.lat
        lng == req.query.lng
        radius == IF req.query.radius = Undefined THEN NumberToString(DefaultRadius)
                  ELSE req.query.radius
        latitude == parseFloat(lat)
        longitude == parseFloat(lng)
        searchRadius == parseFloat(radius)
    IN  IF Falsy(lat) \/ Falsy(lng)
        THEN Reply(req, 400, "Missing required parameters: lat, lng")
        ELSE IF Lt(latitude, 0 - 90) \/ Gt(latitude, 90)
                \/ Lt(longitude, 0 - 180) \/ Gt(longitude, 180)
        THEN Reply(req, 400, "Invalid coordinates")
        ELSE [req EXCEPT !.pc = "fetching", !.latitude = latitude,
                         !.longitude = longitude, !.searchRadius = searchRadius,
                         !.dbOps = @ \o <<"find">>]

\* router.get('/recent'), up to its first await
recentHandler(req) ==
    LET lat == req.query.lat
        lng == req.query.lng
        radius == IF req.query.radius = Undefined THEN NumberToString(DefaultRadius)
                  ELSE req.query.radius
        since == req.query.since
        latitude == parseFloat(lat)
        longitude == parseFloat(lng)
        searchRadius == parseFloat(radius)
        sinceDate == IF Falsy(since) THEN now - FiveMinutes ELSE DateParse(since)
    IN  IF Falsy(lat) \/ Falsy(lng)
        THEN Reply(req, 400, "Missing required parameters: lat, lng")
        ELSE [req EXCEPT !.pc = "fetching", !.latitude = latitude,
                         !.longitude = longitude, !.searchRadius = searchRadius,
                         !.sinceDate = sinceDate,
                         !.dbOps = @ \o <<"find">>]

routeHandler(req) ==
    IF req.route = "nearby" THEN nearbyHandler(req) ELSE recentHandler(req)

\* app.js: sanitizeInput, then the database connection middleware, then the
\* router.  A request arrives and runs up to the first await of its route.
Incoming(r, route, origin, query, ok) ==
    LET req == [IdleReq EXCEPT !.route = route, !.origin = origin,
                               !.query = sanitizeInput(query), !.sent = query,
                               !.receivedAt = now]
    IN  /\ reqs[r].pc = "idle"
        /\ IF mustReconnect
           THEN /\ dbConnectionPromise' = connectDB(ok)
                /\ readyState' = IF connectDB(ok) THEN 1 ELSE readyState
                /\ reqs' = [reqs EXCEPT ![r] =
                       IF connectDB(ok)
                       THEN routeHandler([req EXCEPT !.dbOps = connectDBOps(ok)])
                       ELSE Reply([req EXCEPT !.dbOps = connectDBOps(ok)], 503,
                                  "Database connection unavailable. Please try again later.")]
           ELSE /\ reqs' = [reqs EXCEPT ![r] = routeHandler(req)]
                /\ UNCHANGED <<dbConnectionPromise, readyState>>

\* GET /api/incidents/nearby?lat=&lng=&radius=
GetNearby(r, Queries) ==
    \E query \in Queries, ok \in connectOutcomes :
        /\ analysis.pc # "waiting"
        /\ Incoming(r, "nearby", "direct", query, ok)
        /\ UNCHANGED <<now, ticks, incidents, mongoURI, analysis, migration, users, logins, failedLogins, alerts>>

\* GET /api/incidents/recent?lat=&lng=&radius=&since=
GetRecent(r, Queries) ==
    \E query \in Queries, ok \in connectOutcomes :
        /\ analysis.pc # "waiting"
        /\ Incoming(r, "recent", "direct", query, ok)
        /\ UNCHANGED <<now, ticks, incidents, mongoURI, analysis, migration, users, logins, failedLogins, alerts>>

\* the candidates the route's find() resolves to
candidates(req) ==
    IF req.route = "nearby" THEN findApproved
    ELSE IF req.route = "recent" THEN findApprovedSince(req.sinceDate)
    ELSE IF req.queryAll THEN Range(incidents)
    ELSE findApproved

\* mutant: latitude and longitude are declared at module scope, so a request
\* that arrives while another awaits its find() overwrites them
respondShared(req, all) ==
    LET others == {q \in DOMAIN reqs : reqs[q].pc = "fetching" /\ reqs[q] # req}
        last == IF others = {} THEN req ELSE reqs[CHOOSE q \in others : TRUE]
    IN  [req EXCEPT !.pc = "done", !.status = 200,
                    !.collection = incidents, !.fetched = all,
                    !.body = SelectSeq([i \in DOMAIN all |-> toJSON(all[i])],
                                 LAMBDA incident :
                                     withinRadius(last.latitude, last.longitude,
                                                  req.searchRadius, incident))]

\* .limit(100) of GET /api/incidents
ListLimit == 100

\* the rest of GET /api/incidents: res.json of the first 100 documents
respondList(req, all) ==
    LET page == SubSeq(all, 1, IF Len(all) < ListLimit THEN Len(all) ELSE ListLimit)
    IN  [req EXCEPT !.pc = "done", !.status = 200,
                    !.collection = incidents, !.fetched = page,
                    !.body = [i \in DOMAIN page |-> toJSON(page[i])]]

\* the rest of the route: the filter over the fetched list, and res.json
respond(req, all) ==
    IF req.route = "list" THEN respondList(req, all) ELSE
    [req EXCEPT !.pc = "done", !.status = 200,
                !.collection = incidents, !.fetched = all,
                !.distances = [i \in DOMAIN all |->
                                  calculateDistance(req.latitude, req.longitude,
                                                    all[i].latitude, all[i].longitude)],
                !.body = SelectSeq([i \in DOMAIN all |-> toJSON(all[i])],
                             LAMBDA incident :
                                 withinRadius(req.latitude, req.longitude,
                                              req.searchRadius, incident))]

failureMessage(req) ==
    IF req.route = "nearby" THEN "Failed to fetch nearby incidents"
    ELSE IF req.route = "recent" THEN "Failed to fetch recent incidents"
    ELSE "Failed to fetch incidents"

\* mutant: the catch block answers with an empty list
catchBlockEmpty(req) ==
    [req EXCEPT !.pc = "done", !.status = 200, !.body = <<>>, !.findRejected = TRUE]

\* the catch block of the route: console.error, res.status(500).json({ error })
catchBlock(req) ==
    Reply([req EXCEPT !.findRejected = TRUE], 500, failureMessage(req))

\* mutant: the route deletes the candidates it finds outside the radius
FetchAndPrune(r) ==
    /\ reqs[r].pc = "fetching"
    /\ IF readyState # 1 \/ (reqs[r].route = "recent" /\ IsNaN(reqs[r].sinceDate))
       THEN /\ reqs' = [reqs EXCEPT ![r] = catchBlock(@)]
            /\ UNCHANGED incidents
       ELSE \E all \in SortByTimestampDesc(candidates(reqs[r])) :
               /\ reqs' = [reqs EXCEPT ![r] = respond(@, all)]
               /\ incidents' = SelectSeq(incidents, LAMBDA incident :
                      \/ incident \notin Range(all)
                      \/ withinRadius(reqs[r].latitude, reqs[r].longitude,
                                      reqs[r].searchRadius, incident))
    /\ UNCHANGED <<now, ticks, readyState, mongoURI, dbConnectionPromise, analysis, migration, users, logins, failedLogins, alerts>>

\* the database runs the route's find(), and the route continues after its
\* await: the query rejects (no connection, or an Invalid Date that cannot be
\* cast) and the catch block answers 500, or it resolves and the route filters
Fetch(r) ==
    /\ reqs[r].pc = "fetching"
    /\ IF readyState # 1 \/ (reqs[r].route = "recent" /\ IsNaN(reqs[r].sinceDate))
       THEN reqs' = [reqs EXCEPT ![r] = catchBlock(@)]
       ELSE \E all \in SortByTimestampDesc(candidates(reqs[r])) :
               reqs' = [reqs EXCEPT ![r] = respond(@, all)]
    /\ UNCHANGED <<now, ticks, incidents, readyState, mongoURI, dbConnectionPromise, analysis, migration, users, logins, failedLogins, alerts>>

---------------------------------------------------------------------------
(* GET /api/incidents: optionalAuth and the public list *)

\* router.get('/'), up to its await: the query of the find()
listHandler(req) ==
    [req EXCEPT !.pc = "fetching",
                !.queryAll = req.user.role = "admin" \/ req.user.role = "moderator",
                !.dbOps = @ \o <<"find">>]

\* mutant: optionalAuth does not look at isBanned and isActive
optionalAuthUserAnyStatus(userId, user) ==
    IF user # NoDocument THEN [userId |-> userId, role |-> user.role] ELSE Anonymous

\* req.user after User.findById resolved to user
optionalAuthUser(userId, user) ==
    IF user # NoDocument /\ user.isActive /\ ~user.isBanned
    THEN [userId |-> userId, role |-> user.role]
    ELSE Anonymous

\* optionalAuth, up to its await: without a Bearer token, or with one that
\* jwt.verify throws on, req.user = null and the route runs
optionalAuth(req) ==
    IF req.token.kind = "valid"
    THEN [req EXCEPT !.pc = "authenticating", !.dbOps = @ \o <<"findById">>]
    ELSE listHandler([req EXCEPT !.user = Anonymous])

\* GET /api/incidents with an Authorization header: the connection
\* middleware, optionalAuth and the route, up to the first await
GetList(r, Tokens) ==
    \E token \in Tokens, ok \in connectOutcomes :
        LET req == [IdleReq EXCEPT !.route = "list", !.origin = "direct",
                                   !.token = token, !.receivedAt = now]
        IN  /\ reqs[r].pc = "idle"
            /\ analysis.pc # "waiting"
            /\ IF mustReconnect
               THEN /\ dbConnectionPromise' = connectDB(ok)
                    /\ readyState' = IF connectDB(ok) THEN 1 ELSE readyState
                    /\ reqs' = [reqs EXCEPT ![r] =
                           IF connectDB(ok)
                           THEN optionalAuth([req EXCEPT !.dbOps = connectDBOps(ok)])
                           ELSE Reply([req EXCEPT !.dbOps = connectDBOps(ok)], 503,
                                      "Database connection unavailable. Please try again later.")]
               ELSE /\ reqs' = [reqs EXCEPT ![r] = optionalAuth(req)]
                    /\ UNCHANGED <<dbConnectionPromise, readyState>>
            /\ UNCHANGED <<now, ticks, incidents, mongoURI, analysis, migration, users, logins, failedLogins, alerts>>

\* User.findById settles: a rejection is caught like a bad token, and
\* req.user = null; then the route runs up to its await
UserLookup(r) ==
    /\ reqs[r].pc = "authenticating"
    /\ LET req == reqs[r]
           user == findById(req.token.userId)
       IN  reqs' = [reqs EXCEPT ![r] =
               IF readyState # 1
               THEN listHandler([req EXCEPT !.user = Anonymous])
               ELSE listHandler([req EXCEPT !.found = user,
                                            !.user = optionalAuthUser(req.token.userId, user)])]
    /\ UNCHANGED <<now, ticks, incidents, readyState, mongoURI, dbConnectionPromise, analysis, migration, users, logins, failedLogins, alerts>>

---------------------------------------------------------------------------
(* Reporting and moderation *)

\* where incidents are reported, <<latitude, longitude>>
IncidentPoints == {<<0, 0>>, <<0 - 30, 60>>}

\* The server keeps nothing of a request it has answered: reqs[r] holds the
\* response to a direct request until the exchange is closed, at the latest
\* at the next step of the database or the clock.  The response to the
\* browser's fetch stays until analyzeLocation consumes it.
forget(rs) ==
    [r \in DOMAIN rs |->
        IF rs[r].pc = "done" /\ rs[r].origin = "direct" THEN IdleReq ELSE rs[r]]

\* the response has been sent: the exchange is over
Close(r) ==
    /\ reqs[r].pc = "done"
    /\ reqs[r].origin = "direct"
    /\ reqs' = [reqs EXCEPT ![r] = IdleReq]
    /\ UNCHANGED <<now, ticks, incidents, readyState, mongoURI, dbConnectionPromise, analysis, migration, users, logins, failedLogins, alerts>>

\* mutant: the schema's default moderation status is approved
ReportIncidentPublished(point) ==
    /\ readyState = 1
    /\ Len(incidents) < MaxIncidents
    /\ incidents' = Append(incidents,
           [id |-> Len(incidents) + 1, latitude |-> point[1], longitude |-> point[2],
            timestamp |-> now, moderation |-> "approved", title |-> "reported"])
    /\ reqs' = forget(reqs)
    /\ UNCHANGED <<now, ticks, readyState, mongoURI, dbConnectionPromise, analysis, migration, users, logins, failedLogins, alerts>>

\* POST /api/incidents: the document is saved with timestamp new Date() and
\* the schema's default moderation status
ReportIncident(point) ==
    /\ readyState = 1
    /\ Len(incidents) < MaxIncidents
    /\ incidents' = Append(incidents,
           [id |-> Len(incidents) + 1, latitude |-> point[1], longitude |-> point[2],
            timestamp |-> now, moderation |-> "pending", title |-> "reported"])
    /\ reqs' = forget(reqs)
    /\ UNCHANGED <<now, ticks, readyState, mongoURI, dbConnectionPromise, analysis, migration, users, logins, failedLogins, alerts>>

\* incident.moderation.status = ...; incident.save()
setModeration(i, status) ==
    /\ readyState = 1
    /\ i \in DOMAIN incidents
    /\ incidents' = [incidents EXCEPT ![i].moderation = status]
    /\ reqs' = forget(reqs)
    /\ UNCHANGED <<now, ticks, readyState, mongoURI, dbConnectionPromise, analysis, migration, users, logins, failedLogins, alerts>>

\* POST /api/admin/incidents/:id/approve
Approve(i) == setModeration(i, "approved")

\* POST /api/admin/incidents/:id/reject
Reject(i) == setModeration(i, "rejected")

\* POST /api/admin/incidents/:id/flag
Flag(i) == setModeration(i, "flagged")

\* time passes
TickSteps == {FiveMinutes, OneWeek}

Tick(d) ==
    /\ ticks < MaxTicks
    /\ now' = now + d
    /\ ticks' = ticks + 1
    /\ reqs' = forget(reqs)
    /\ UNCHANGED <<incidents, readyState, mongoURI, dbConnectionPromise, analysis, migration, users, logins, failedLogins, alerts>>

\* the connection to the database drops; the driver restores a connection
\* that had been established
ConnectionLost ==
    /\ readyState = 1
    /\ readyState' = 0
    /\ reqs' = forget(reqs)
    /\ UNCHANGED <<now, ticks, incidents, mongoURI, dbConnectionPromise, analysis, migration, users, logins, failedLogins, alerts>>

ConnectionRestored ==
    /\ readyState = 0
    /\ dbConnectionPromise
    /\ readyState' = 1
    /\ reqs' = forget(reqs)
    /\ UNCHANGED <<now, ticks, incidents, mongoURI, dbConnectionPromise, analysis, migration, users, logins, failedLogins, alerts>>

---------------------------------------------------------------------------
(* User administration (routes/admin.js) *)

\* POST /api/admin/users/:id/ban, by an admin
BanUser(u) ==
    /\ readyState = 1
    /\ users[u].role # "admin"
    /\ users' = [users EXCEPT ![u].isBanned = TRUE, ![u].isActive = FALSE]
    /\ reqs' = forget(reqs)
    /\ UNCHANGED <<now, ticks, incidents, readyState, mongoURI, dbConnectionPromise, analysis, migration, logins, failedLogins, alerts>>

\* POST /api/admin/users/:id/unban, by an admin
UnbanUser(u) ==
    /\ readyState = 1
    /\ users' = [users EXCEPT ![u].isBanned = FALSE, ![u].isActive = TRUE,
                              ![u].banExpires = NoDate]
    /\ reqs' = forget(reqs)
    /\ UNCHANGED <<now, ticks, incidents, readyState, mongoURI, dbConnectionPromise, analysis, migration, logins, failedLogins, alerts>>

\* POST /api/auth/request-deletion, by the user: requestDeletion() deactivates
\* the account
RequestDeletion(u) ==
    /\ readyState = 1
    /\ users[u].isActive
    /\ ~users[u].isBanned
    /\ ~users[u].requestedDeletion
    /\ users' = [users EXCEPT ![u].isActive = FALSE, ![u].requestedDeletion = TRUE]
    /\ reqs' = forget(reqs)
    /\ UNCHANGED <<now, ticks, incidents, readyState, mongoURI, dbConnectionPromise, analysis, migration, logins, failedLogins, alerts>>

\* PUT /api/admin/users/:id/role, by another admin
SetRole(u, role) ==
    /\ readyState = 1
    /\ users[u].role # role
    /\ users' = [users EXCEPT ![u].role = role]
    /\ reqs' = forget(reqs)
    /\ UNCHANGED <<now, ticks, incidents, readyState, mongoURI, dbConnectionPromise, analysis, migration, logins, failedLogins, alerts>>

---------------------------------------------------------------------------
(* The safety analysis of the browser (public/js/safety.js) *)

NoSafetyData == [level |-> "none", incidentCount |-> 0, recentIncidents |-> <<>>]
IdleAnalysis ==
    [pc |-> "idle", location |-> <<0, 0>>, incidents |-> <<>>,
     safetyData |-> NoSafetyData,
     \* history: the clock when calculateSafetyLevel ran
     analysedAt |-> 0]

\* mutant: count <= 3 is still a warning
calculateSafetyLevelOffByOne(list) ==
    LET oneWeekAgo == now - OneWeek
        recentIncidents ==
            SelectSeq(list, LAMBDA incident : Gt(DateParse(incident.timestamp), oneWeekAgo))
        count == Len(recentIncidents)
        level == IF count = 0 THEN "safe"
                 ELSE IF count <= 3 THEN "warning"
                 ELSE "danger"
    IN  [level |-> level, incidentCount |-> count, recentIncidents |-> recentIncidents]

\* mutant: the window includes the instant exactly one week ago
calculateSafetyLevelInclusive(list) ==
    LET oneWeekAgo == now - OneWeek
        recentIncidents ==
            SelectSeq(list, LAMBDA incident : Ge(DateParse(incident.timestamp), oneWeekAgo))
        count == Len(recentIncidents)
        level == IF count = 0 THEN "safe"
                 ELSE IF count <= 2 THEN "warning"
                 ELSE "danger"
    IN  [level |-> level, incidentCount |-> count, recentIncidents |-> recentIncidents]

\* mutant: no window, every nearby incident counts
calculateSafetyLevelAll(list) ==
    LET count == Len(list)
        level == IF count = 0 THEN "safe"
                 ELSE IF count <= 2 THEN "warning"
                 ELSE "danger"
    IN  [level |-> level, incidentCount |-> count, recentIncidents |-> list]

\* calculateSafetyLevel(incidents), with now = new Date()
calculateSafetyLevel(list) ==
    LET oneWeekAgo == now - OneWeek
        recentIncidents ==
            SelectSeq(list, LAMBDA incident : Gt(DateParse(incident.timestamp), oneWeekAgo))
        count == Len(recentIncidents)
        level == IF count = 0 THEN "safe"
                 ELSE IF count <= 2 THEN "warning"
                 ELSE "danger"
    IN  [level |-> level, incidentCount |-> count, recentIncidents |-> recentIncidents]

\* analyzeLocation(latLng), up to the fetch of /api/incidents/nearby
AnalyzeLocation(r, point) ==
    /\ analysis.pc # "waiting"
    /\ Incoming(r, "nearby", "analysis",
                [lat |-> NumberToString(point[1]), lng |-> NumberToString(point[2]),
                 radius |-> NumberToString(AnalysisRadius), since |-> Undefined],
                FALSE)
    /\ analysis' = [IdleAnalysis EXCEPT !.pc = "waiting", !.location = point]
    /\ UNCHANGED <<now, ticks, incidents, mongoURI, migration, users, logins, failedLogins, alerts>>

\* analyzeLocation after its awaits: the response is the incident array, or
\* an { error } object on which incidents.filter throws and the catch block
\* shows 'Error analyzing location'
AnalyzeLocationResponse(r) ==
    /\ analysis.pc = "waiting"
    /\ reqs[r].pc = "done"
    /\ reqs[r].origin = "analysis"
    /\ analysis' = IF reqs[r].status = 200
                   THEN [analysis EXCEPT !.pc = "shown",
                                         !.incidents = reqs[r].body,
                                         !.safetyData = calculateSafetyLevel(reqs[r].body),
                                         !.analysedAt = now]
                   ELSE [analysis EXCEPT !.pc = "failed"]
    /\ reqs' = [reqs EXCEPT ![r] = IdleReq]
    /\ UNCHANGED <<now, ticks, incidents, readyState, mongoURI, dbConnectionPromise, migration, users, logins, failedLogins, alerts>>

---------------------------------------------------------------------------
(* The real-time danger alerts of the browser (public/js/safety.js)         *)

ThirtySeconds == 30 * 1000
AlertRadius == 1000

\* currentLocation, the instant the interval timer fires next, and (history)
\* the _id of the incident of every alert shown so far
IdleAlerts == [located |-> TRUE, currentLocation |-> <<0, 0>>, nextPoll |-> 0, shown |-> <<>>]

\* the callback of setInterval runs, up to its fetch of /api/incidents/recent
AlertPoll(r) ==
    /\ alerts.nextPoll <= now
    /\ alerts' = [alerts EXCEPT !.nextPoll = now + ThirtySeconds]
    /\ IF ~alerts.located
       THEN UNCHANGED <<reqs, dbConnectionPromise, readyState>>
       ELSE \E ok \in connectOutcomes :
                Incoming(r, "recent", "alerts",
                         [lat |-> NumberToString(alerts.currentLocation[1]),
                          lng |-> NumberToString(alerts.currentLocation[2]),
                          radius |-> NumberToString(AlertRadius),
                          since |-> toISOString(now - FiveMinutes)],
                         ok)
    /\ UNCHANGED <<now, ticks, incidents, mongoURI, analysis, migration, users, logins, failedLogins>>

\* the callback after its awaits: recentIncidents is the incident array, or an
\* { error } object, whose length is undefined
AlertResponse(r) ==
    /\ reqs[r].pc = "done"
    /\ reqs[r].origin = "alerts"
    /\ alerts' = IF reqs[r].status = 200 /\ Len(reqs[r].body) > 0
                 THEN [alerts EXCEPT !.shown = Append(@, reqs[r].body[1].id)]
                 ELSE alerts
    /\ reqs' = [reqs EXCEPT ![r] = IdleReq]
    /\ UNCHANGED <<now, ticks, incidents, readyState, mongoURI, dbConnectionPromise, analysis, migration, users, logins, failedLogins>>

---------------------------------------------------------------------------
(* /api/incidents/:id: GET, PUT and DELETE (routes/incidents.js)            *)

\* req.params.id: the ids of the stored incidents, an id of no incident, and
\* (0) a string that is no ObjectId, on which the query rejects with CastError
IncidentParams == {0, 1, 2, 3}

\* the positions of the incidents with this _id
positionsOf(id) == {k \in DOMAIN incidents : incidents[k].id = id}

byIdFailure(req) ==
    IF req.route = "byId" THEN "Failed to fetch incident"
    ELSE IF req.route = "put" THEN "Failed to update incident"
    ELSE "Failed to delete incident"

\* the query of a /:id route settles: rejected -> catch block, null -> 404
byIdSettles(req, rejected, found, body) ==
    IF rejected THEN Reply(req, 500, byIdFailure(req))
    ELSE IF ~found THEN Reply(req, 404, "Incident not found")
    ELSE [req EXCEPT !.pc = "done", !.status = 200, !.body = body]

\* a request to /api/incidents/:id arrives: the connection middleware, then
\* the route up to its await; no middleware of the route reads the token
byIdArrives(r, route, Tokens, titles) ==
    \E token \in Tokens, id \in IncidentParams, title \in titles, ok \in connectOutcomes :
        LET req == [IdleReq EXCEPT !.route = route, !.origin = "direct", !.pc = "querying",
                                   !.token = token, !.id = id, !.title = title,
                                   !.receivedAt = now]
        IN  /\ reqs[r].pc = "idle"
            /\ analysis.pc # "waiting"
            /\ IF mustReconnect
               THEN /\ dbConnectionPromise' = connectDB(ok)
                    /\ readyState' = IF connectDB(ok) THEN 1 ELSE readyState
                    /\ reqs' = [reqs EXCEPT ![r] =
                           IF connectDB(ok)
                           THEN [req EXCEPT !.dbOps = connectDBOps(ok)]
                           ELSE Reply([req EXCEPT !.dbOps = connectDBOps(ok)], 503,
                                      "Database connection unavailable. Please try again later.")]
               ELSE /\ reqs' = [reqs EXCEPT ![r] = req]
                    /\ UNCHANGED <<dbConnectionPromise, readyState>>
            /\ UNCHANGED <<now, ticks, incidents, mongoURI, analysis, migration, users, logins, failedLogins, alerts>>

\* GET /api/incidents/:id
GetIncident(r, Tokens) == byIdArrives(r, "byId", Tokens, {""})

\* Incident.findById settles
FindByIdSettles(r) ==
    /\ reqs[r].pc = "querying"
    /\ reqs[r].route = "byId"
    /\ LET req == reqs[r]
           at == positionsOf(req.id)
       IN  reqs' = [reqs EXCEPT ![r] =
               byIdSettles(req, readyState # 1 \/ req.id = 0, at # {},
                           IF at = {} THEN <<>> ELSE <<incidents[CHOOSE k \in at : TRUE]>>)]
    /\ UNCHANGED <<now, ticks, incidents, readyState, mongoURI, dbConnectionPromise, analysis, migration, users, logins, failedLogins, alerts>>

\* PUT /api/incidents/:id with a title in the body
PutIncident(r, Tokens) == byIdArrives(r, "put", Tokens, {"edited"})

\* Incident.findByIdAndUpdate settles, { new: true }
UpdateSettles(r) ==
    /\ reqs[r].pc = "querying"
    /\ reqs[r].route = "put"
    /\ LET req == reqs[r]
           at == positionsOf(req.id)
           updated == [k \in DOMAIN incidents |->
                          IF k \in at THEN [incidents[k] EXCEPT !.title = req.title]
                          ELSE incidents[k]]
       IN  IF readyState # 1 \/ req.id = 0
           THEN /\ reqs' = [reqs EXCEPT ![r] = byIdSettles(req, TRUE, FALSE, <<>>)]
                /\ UNCHANGED incidents
           ELSE /\ incidents' = updated
                /\ reqs' = [reqs EXCEPT ![r] =
                       byIdSettles(req, FALSE, at # {},
                                   IF at = {} THEN <<>> ELSE <<updated[CHOOSE k \in at : TRUE]>>)]
    /\ UNCHANGED <<now, ticks, readyState, mongoURI, dbConnectionPromise, analysis, migration, users, logins, failedLogins, alerts>>

\* DELETE /api/incidents/:id
DeleteIncident(r, Tokens) == byIdArrives(r, "delete", Tokens, {""})

\* Incident.findByIdAndDelete settles
DeleteSettles(r) ==
    /\ reqs[r].pc = "querying"
    /\ reqs[r].route = "delete"
    /\ LET req == reqs[r]
           at == positionsOf(req.id)
           kept(doc) == doc.id # req.id
       IN  IF readyState # 1 \/ req.id = 0
           THEN /\ reqs' = [reqs EXCEPT ![r] = byIdSettles(req, TRUE, FALSE, <<>>)]
                /\ UNCHANGED incidents
           ELSE /\ incidents' = SelectSeq(incidents, kept)
                /\ reqs' = [reqs EXCEPT ![r] =
                       byIdSettles(req, FALSE, at # {},
                                   IF at = {} THEN <<>> ELSE <<incidents[CHOOSE k \in at : TRUE]>>)]
    /\ UNCHANGED <<now, ticks, readyState, mongoURI, dbConnectionPromise, analysis, migration, users, logins, failedLogins, alerts>>

---------------------------------------------------------------------------
(* The routes behind auth (middleware/auth.js, routes/admin.js, auth.js)    *)

OneDay == 24 * 60 * 60 * 1000

AdminRoutes == {"ban", "unban", "role"}

\* req.params.id of the admin routes: the accounts, an id of no account, and
\* (0) a string that is no ObjectId
UserParams == {0} \cup UserIds \cup {3}

\* an error response of these routes; the loaded document is dropped
answer(req, code, message) ==
    [Reply(req, code, message) EXCEPT !.loaded = NoDocument, !.doc = NoDocument]

\* res.json(...) of these routes
succeed(req, code) ==
    [req EXCEPT !.pc = "done", !.status = code, !.loaded = NoDocument, !.doc = NoDocument]

\* a request arrives: the connection middleware, then next is the request
\* as the route's middleware leaves it at its first await
arrives(r, next) ==
    \E ok \in connectOutcomes :
        /\ reqs[r].pc = "idle"
        /\ analysis.pc # "waiting"
        /\ IF mustReconnect
           THEN /\ dbConnectionPromise' = connectDB(ok)
                /\ readyState' = IF connectDB(ok) THEN 1 ELSE readyState
                /\ reqs' = [reqs EXCEPT ![r] =
                       IF connectDB(ok)
                       THEN [next EXCEPT !.dbOps = connectDBOps(ok)]
                       ELSE Reply([next EXCEPT !.dbOps = connectDBOps(ok)], 503,
                                  "Database connection unavailable. Please try again later.")]
           ELSE /\ reqs' = [reqs EXCEPT ![r] = next]
                /\ UNCHANGED <<dbConnectionPromise, readyState>>
        /\ UNCHANGED <<now, ticks, incidents, mongoURI, analysis, migration, users, logins, failedLogins, alerts>>

\* auth, up to await User.findById
auth(req) ==
    IF req.token.kind = "none"
    THEN answer(req, 401, "Access denied. No valid token provided.")
    ELSE IF req.token.kind = "expired"
    THEN answer(req, 401, "Access denied. Token has expired.")
    ELSE IF req.token.kind = "malformed"
    THEN answer(req, 401, "Access denied. Invalid token.")
    ELSE [req EXCEPT !.pc = "auth"]

\* authorize(...roles)
authorized(req, roles) == req.user # Anonymous /\ req.user.role \in roles

\* the middleware and the route that follow auth, up to the first await
afterAuth(req) ==
    IF req.route \in AdminRoutes /\ req.user = Anonymous
    THEN answer(req, 401, "Access denied. Authentication required.")
    ELSE IF req.route \in AdminRoutes /\ ~authorized(req, {"admin"})
    THEN answer(req, 403, "Access denied. Insufficient privileges.")
    ELSE IF req.route = "ban" /\ ~req.reason
    THEN answer(req, 400, "Ban reason is required")
    ELSE IF req.route = "role" /\ req.role \notin Roles
    THEN answer(req, 400, "Invalid role. Must be: user, moderator, or admin")
    ELSE IF req.route = "consent" /\ req.consent = "none"
    THEN answer(req, 400, "Consent data is required")
    ELSE IF req.route = "report"
    THEN [req EXCEPT !.pc = "consent"]
    ELSE [req EXCEPT !.pc = "findingUser"]

\* mutant: auth reads neither isActive nor isBanned
authChecksTokenOnly(req, user) ==
    IF user = NoDocument
    THEN answer(req, 401, "Access denied. User not found.")
    ELSE afterAuth([req EXCEPT !.found = user,
                               !.user = [userId |-> req.token.userId, role |-> user.role]])

\* auth after User.findById resolved to user
authChecks(req, user) ==
    IF user = NoDocument
    THEN answer(req, 401, "Access denied. User not found.")
    ELSE IF ~user.isActive
    THEN answer([req EXCEPT !.found = user], 403, "Access denied. Account is deactivated.")
    ELSE IF user.isBanned
    THEN answer([req EXCEPT !.found = user], 403, "Access denied. Account is banned.")
    ELSE afterAuth([req EXCEPT !.found = user,
                               !.user = [userId |-> req.token.userId, role |-> user.role]])

\* User.findById of auth settles: a rejection is no JWT error, it is thrown
\* again and the outer catch answers 500
AuthSettles(r) ==
    /\ reqs[r].pc = "auth"
    /\ reqs' = [reqs EXCEPT ![r] =
           IF readyState # 1 THEN answer(@, 500, "Authentication failed")
           ELSE authChecks(@, findById(@.token.userId))]
    /\ UNCHANGED <<now, ticks, incidents, readyState, mongoURI, dbConnectionPromise, analysis, migration, users, logins, failedLogins, alerts>>

\* POST /api/admin/users/:id/ban
PostBan(r, Tokens, ids, durations) ==
    \E token \in Tokens, id \in ids, duration \in durations, reason \in BOOLEAN :
        arrives(r, auth([IdleReq EXCEPT !.route = "ban", !.origin = "direct",
                                        !.token = token, !.id = id, !.duration = duration,
                                        !.reason = reason, !.receivedAt = now]))

\* POST /api/admin/users/:id/unban
PostUnban(r, Tokens, ids) ==
    \E token \in Tokens, id \in ids :
        arrives(r, auth([IdleReq EXCEPT !.route = "unban", !.origin = "direct",
                                        !.token = token, !.id = id, !.receivedAt = now]))

\* PUT /api/admin/users/:id/role
PutRole(r, Tokens, ids, roles) ==
    \E token \in Tokens, id \in ids, role \in roles :
        arrives(r, auth([IdleReq EXCEPT !.route = "role", !.origin = "direct",
                                        !.token = token, !.id = id, !.role = role,
                                        !.receivedAt = now]))

\* POST /api/auth/request-deletion
PostRequestDeletion(r, Tokens) ==
    \E token \in Tokens :
        arrives(r, auth([IdleReq EXCEPT !.route = "requestDeletion", !.origin = "direct",
                                        !.token = token, !.receivedAt = now]))

\* POST /api/auth/cancel-deletion
PostCancelDeletion(r, Tokens) ==
    \E token \in Tokens :
        arrives(r, auth([IdleReq EXCEPT !.route = "cancelDeletion", !.origin = "direct",
                                        !.token = token, !.receivedAt = now]))

\* POST /api/auth/consent: no consent in the body, both consents given, or
\* dataCollection withdrawn
PostConsent(r, Tokens) ==
    \E token \in Tokens, consent \in {"none", "given", "withdrawn"} :
        arrives(r, auth([IdleReq EXCEPT !.route = "consent", !.origin = "direct",
                                        !.token = token, !.consent = consent,
                                        !.receivedAt = now]))

\* the _id the route looks up: req.params.id, or req.user.userId
lookupId(req) == IF req.route \in AdminRoutes THEN req.id ELSE req.user.userId

routeFailure(req) ==
    IF req.route = "ban" THEN "Failed to ban user"
    ELSE IF req.route = "unban" THEN "Failed to unban user"
    ELSE IF req.route = "role" THEN "Failed to update user role"
    ELSE IF req.route = "requestDeletion" THEN "Failed to request deletion"
    ELSE IF req.route = "cancelDeletion" THEN "Failed to cancel deletion"
    ELSE "Failed to update consent"

\* user._id.toString() === req.user.userId: auth stored user._id, an
\* ObjectId, in req.user.userId, and a string is never strictly equal to an
\* object
isOwnId(idString, userId) == FALSE

\* userSchema.methods.requestDeletion, up to this.save()
requestDeletion(user) == [user EXCEPT !.requestedDeletion = TRUE, !.isActive = FALSE]

\* the loaded document as the route changes it before save()
changedByRoute(req, user) ==
    IF req.route = "ban"
    THEN [user EXCEPT !.isBanned = TRUE, !.isActive = FALSE,
                      !.banExpires = IF req.duration > 0
                                     THEN now + req.duration * OneDay ELSE @]
    ELSE IF req.route = "unban"
    THEN [user EXCEPT !.isBanned = FALSE, !.banExpires = NoDate, !.isActive = TRUE]
    ELSE IF req.route = "role"
    THEN [user EXCEPT !.role = req.role]
    ELSE IF req.route = "requestDeletion"
    THEN requestDeletion(user)
    ELSE IF req.route = "cancelDeletion"
    THEN [user EXCEPT !.requestedDeletion = FALSE, !.isActive = TRUE]
    ELSE IF req.consent = "given"
    THEN [user EXCEPT !.dataCollection = TRUE, !.dataProcessing = TRUE]
    ELSE [user EXCEPT !.dataCollection = FALSE]

\* the route after its User.findById resolved to user, up to save()
userChecks(req, user) ==
    IF user = NoDocument
    THEN answer(req, 404, "User not found")
    ELSE IF req.route = "ban" /\ user.role = "admin"
    THEN answer(req, 403, "Cannot ban admin users")
    ELSE IF req.route = "role" /\ isOwnId(req.id, req.user.userId)
    THEN answer(req, 403, "Cannot change your own role")
    ELSE IF req.route = "requestDeletion" /\ user.requestedDeletion
    THEN answer(req, 400, "Deletion already requested")
    ELSE IF req.route = "cancelDeletion" /\ ~user.requestedDeletion
    THEN answer(req, 400, "No deletion request found")
    ELSE [req EXCEPT !.pc = "saving", !.loaded = user, !.doc = changedByRoute(req, user)]

\* the route's User.findById settles
UserFound(r) ==
    /\ reqs[r].pc = "findingUser"
    /\ reqs' = [reqs EXCEPT ![r] =
           IF readyState # 1 \/ lookupId(@) = 0
           THEN answer(@, 500, routeFailure(@))
           ELSE userChecks(@, findById(lookupId(@)))]
    /\ UNCHANGED <<now, ticks, incidents, readyState, mongoURI, dbConnectionPromise, analysis, migration, users, logins, failedLogins, alerts>>

\* user.save() settles
UserSaved(r) ==
    /\ reqs[r].pc = "saving"
    /\ LET req == reqs[r]
       IN  IF readyState # 1
           THEN /\ reqs' = [reqs EXCEPT ![r] = answer(req, 500, routeFailure(req))]
                /\ UNCHANGED users
           ELSE /\ users' = [users EXCEPT ![lookupId(req)] = save(@, req.loaded, req.doc)]
                /\ reqs' = [reqs EXCEPT ![r] = succeed(req, 200)]
    /\ UNCHANGED <<now, ticks, incidents, readyState, mongoURI, dbConnectionPromise, analysis, migration, logins, failedLogins, alerts>>

---------------------------------------------------------------------------
(* POST /api/incidents: auth, requireConsent, checkDeletionStatus, the route *)

\* req.body: every field and valid coordinates, a field missing, or a
\* latitude out of range
ReportBodies == {"valid", "missing", "badCoordinates"}

PostIncident(r, Tokens) ==
    \E token \in Tokens, report \in ReportBodies, anonymous \in BOOLEAN :
        arrives(r, auth([IdleReq EXCEPT !.route = "report", !.origin = "direct",
                                        !.token = token, !.report = report,
                                        !.anonymous = anonymous,
                                        !.latitude = 0 - 30, !.longitude = 60,
                                        !.receivedAt = now]))

\* the route, up to await incident.save()
reportHandler(req) ==
    IF req.report = "missing"
    THEN answer(req, 400,
                "Missing required fields: title, category, description, latitude, longitude")
    ELSE IF req.report = "badCoordinates"
    THEN answer(req, 400, "Invalid coordinates")
    ELSE [req EXCEPT !.pc = "savingIncident"]

\* User.findById of requireConsent settles; on consent, checkDeletionStatus
\* runs up to its User.findById
ConsentSettles(r) ==
    /\ reqs[r].pc = "consent"
    /\ LET req == reqs[r]
           user == findById(req.user.userId)
       IN  reqs' = [reqs EXCEPT ![r] =
               IF readyState # 1 THEN answer(req, 500, "Failed to verify consent")
               ELSE IF user = NoDocument THEN answer(req, 404, "User not found")
               ELSE IF ~user.dataCollection \/ ~user.dataProcessing
               THEN answer(req, 403, "Data collection and processing consent is required")
               ELSE [req EXCEPT !.pc = "deletionStatus", !.consented = TRUE]]
    /\ UNCHANGED <<now, ticks, incidents, readyState, mongoURI, dbConnectionPromise, analysis, migration, users, logins, failedLogins, alerts>>

\* checkDeletionStatus after its query settled: the catch block calls next()
checkDeletionStatus(req, rejected, user) ==
    IF rejected
    THEN reportHandler(req)
    ELSE IF user # NoDocument /\ user.requestedDeletion
    THEN answer(req, 403,
                "Account is scheduled for deletion. Please contact support to reactivate.")
    ELSE reportHandler(req)

\* User.findById of checkDeletionStatus settles
DeletionStatusSettles(r) ==
    /\ reqs[r].pc = "deletionStatus"
    /\ LET user == findById(reqs[r].user.userId)
           req == [reqs[r] EXCEPT !.deletionPending = user.requestedDeletion]
       IN  reqs' = [reqs EXCEPT ![r] = checkDeletionStatus(req, readyState # 1, user)]
    /\ UNCHANGED <<now, ticks, incidents, readyState, mongoURI, dbConnectionPromise, analysis, migration, users, logins, failedLogins, alerts>>

\* incident.save() settles; an incident that is not anonymous is followed by
\* User.findByIdAndUpdate
IncidentSaved(r) ==
    /\ reqs[r].pc = "savingIncident"
    /\ LET req == reqs[r]
       IN  IF readyState # 1
           THEN /\ reqs' = [reqs EXCEPT ![r] = answer(req, 500, "Failed to create incident")]
                /\ UNCHANGED incidents
           ELSE /\ Len(incidents) < MaxIncidents
                /\ incidents' = Append(incidents,
                       [id |-> Len(incidents) + 1, latitude |-> req.latitude,
                        longitude |-> req.longitude, timestamp |-> now,
                        moderation |-> "pending", title |-> "reported"])
                /\ reqs' = [reqs EXCEPT ![r] =
                       IF req.anonymous THEN succeed(req, 201)
                       ELSE [req EXCEPT !.pc = "counting"]]
    /\ UNCHANGED <<now, ticks, readyState, mongoURI, dbConnectionPromise, analysis, migration, users, logins, failedLogins, alerts>>

\* User.findByIdAndUpdate with $inc settles
CountSettles(r) ==
    /\ reqs[r].pc = "counting"
    /\ LET req == reqs[r]
           u == req.user.userId
       IN  IF readyState # 1
           THEN /\ reqs' = [reqs EXCEPT ![r] = answer(req, 500, "Failed to create incident")]
                /\ UNCHANGED users
           ELSE /\ users' = [users EXCEPT ![u].reportsCount = @ + 1, ![u].points = @ + 10]
                /\ reqs' = [reqs EXCEPT ![r] = succeed(req, 201)]
    /\ UNCHANGED <<now, ticks, incidents, readyState, mongoURI, dbConnectionPromise, analysis, migration, logins, failedLogins, alerts>>

---------------------------------------------------------------------------
(* Password reset: forgot-password, verify-otp, reset-password (auth.js)    *)

TenMinutes == 10 * 60 * 1000

\* the codes Math.random gives, and the new passwords
Otps == {1, 2}
NewPasswords == {1, 2}

\* the route up to its await: the checks of the body
resetValidation(req) ==
    IF req.route = "forgot" /\ req.email = 0
    THEN answer(req, 400, "Please provide email address")
    ELSE IF req.route = "verifyOtp" /\ (req.email = 0 \/ req.otp = 0)
    THEN answer(req, 400, "Please provide email and verification code")
    ELSE IF req.route = "resetPassword"
            /\ (req.email = 0 \/ req.otp = 0 \/ req.newPassword = 0)
    THEN answer(req, 400,
                "Please provide email, verification code, new password, and confirmation")
    ELSE [req EXCEPT !.pc = "findingByEmail"]

\* POST /api/auth/forgot-password
PostForgotPassword(r, emails) ==
    \E email \in emails :
        arrives(r, resetValidation([IdleReq EXCEPT !.route = "forgot", !.origin = "direct",
                                                   !.email = email, !.receivedAt = now]))

\* POST /api/auth/verify-otp
PostVerifyOtp(r, emails) ==
    \E email \in emails, otp \in {0} \cup Otps :
        arrives(r, resetValidation([IdleReq EXCEPT !.route = "verifyOtp", !.origin = "direct",
                                                   !.email = email, !.otp = otp,
                                                   !.receivedAt = now]))

\* POST /api/auth/reset-password, newPassword and confirmPassword equal and
\* long enough
PostResetPassword(r, emails) ==
    \E email \in emails, otp \in {0} \cup Otps, newPassword \in {0} \cup NewPasswords :
        arrives(r, resetValidation([IdleReq EXCEPT !.route = "resetPassword",
                                                   !.origin = "direct", !.email = email,
                                                   !.otp = otp, !.newPassword = newPassword,
                                                   !.receivedAt = now]))

\* verifyPasswordResetOTP
verifyPasswordResetOTP(user, otp) ==
    user.resetOTP = otp /\ user.resetOTPExpires # NoDate /\ user.resetOTPExpires > now

\* generatePasswordResetOTP, otp being what Math.random gave
generatePasswordResetOTP(user, otp) ==
    [user EXCEPT !.resetOTP = otp, !.resetOTPExpires = now + TenMinutes]

resetFailure(req) ==
    IF req.route = "forgot" THEN "Failed to process password reset request"
    ELSE IF req.route = "verifyOtp" THEN "Failed to verify code"
    ELSE "Failed to reset password"

\* the route after its query by email resolved to user, up to save(); otp
\* is what Math.random gives
afterFindByEmail(req, user, otp) ==
    IF req.route = "forgot"
    THEN IF user = NoDocument THEN succeed(req, 200)
         ELSE [req EXCEPT !.pc = "savingReset", !.loaded = user,
                          !.doc = generatePasswordResetOTP(user, otp)]
    ELSE IF user = NoDocument
    THEN answer(req, 400, "Invalid verification code or email")
    ELSE IF ~verifyPasswordResetOTP(user, req.otp)
    THEN answer(req, 400, "Invalid or expired verification code")
    ELSE IF req.route = "verifyOtp"
    THEN succeed(req, 200)
    ELSE [req EXCEPT !.pc = "savingReset", !.loaded = user,
                     !.doc = [user EXCEPT !.password = req.newPassword, !.resetOTP = 0,
                                          !.resetOTPExpires = NoDate]]

\* User.findByEmail or User.findOne of a reset route settles
EmailFound(r) ==
    /\ reqs[r].pc = "findingByEmail"
    /\ \E otp \in Otps :
          reqs' = [reqs EXCEPT ![r] =
              IF readyState # 1 THEN answer(@, 500, resetFailure(@))
              ELSE afterFindByEmail(@, findById(@.email), otp)]
    /\ UNCHANGED <<now, ticks, incidents, readyState, mongoURI, dbConnectionPromise, analysis, migration, users, logins, failedLogins, alerts>>

\* user.save() of forgot-password or reset-password settles; forgot-password
\* answers the same whatever sendOTPEmail returns
ResetSaved(r) ==
    /\ reqs[r].pc = "savingReset"
    /\ LET req == reqs[r]
       IN  IF readyState # 1
           THEN /\ reqs' = [reqs EXCEPT ![r] = answer(req, 500, resetFailure(req))]
                /\ UNCHANGED users
           ELSE /\ users' = [users EXCEPT ![req.email] = save(@, req.loaded, req.doc)]
                /\ reqs' = [reqs EXCEPT ![r] = succeed(req, 200)]
    /\ UNCHANGED <<now, ticks, incidents, readyState, mongoURI, dbConnectionPromise, analysis, migration, logins, failedLogins, alerts>>

---------------------------------------------------------------------------
(* POST /api/auth/login and the account lockout (routes/auth.js, User.js)   *)

\* handleFailedLogin locks the account at this many attempts
MaxLoginAttempts == 5
TwoHours == 2 * 60 * 60 * 1000

LoginReqs == {1, 2}
\* req.body.email: 0 is no email, an id of UserIds is that account's email,
\* any other number is an email of no account
Emails == {0} \cup UserIds \cup {3}
Passwords == {"missing", "wrong", "right"}

IdleLogin ==
    [pc |-> "idle", email |-> 0, password |-> "missing",
     loaded |-> NoDocument, user |-> NoDocument, status |-> 0]
IdleLogins == [l \in LoginReqs |-> IdleLogin]
NoFailedLogins == [u \in UserIds |-> 0]

\* the virtual isLocked: !!(this.lockUntil && this.lockUntil > Date.now())
isLocked(user) == user.lockUntil # NoDate /\ user.lockUntil > now

\* handleFailedLogin, up to this.save()
handleFailedLogin(user) ==
    LET attempts == user.loginAttempts + 1
    IN  [user EXCEPT !.loginAttempts = attempts,
                     !.lockUntil = IF attempts >= MaxLoginAttempts
                                   THEN now + TwoHours ELSE @]

\* handleSuccessfulLogin, up to this.save()
handleSuccessfulLogin(user) ==
    [user EXCEPT !.loginAttempts = 0, !.lockUntil = NoDate]

\* the response is sent, and the loaded document is dropped
loginReply(login, status) ==
    [login EXCEPT !.pc = "done", !.status = status,
                  !.loaded = NoDocument, !.user = NoDocument]

\* the route after User.findOne resolved with user, up to comparePassword
loginChecks(login, user) ==
    IF user = NoDocument THEN loginReply(login, 401)
    ELSE IF isLocked(user) THEN loginReply(login, 423)
    ELSE IF user.isBanned THEN loginReply(login, 403)
    ELSE IF ~user.isActive THEN loginReply(login, 403)
    ELSE [login EXCEPT !.pc = "comparing", !.loaded = user, !.user = user]

\* POST /api/auth/login arrives: the connection middleware and the route up
\* to await User.findOne
PostLogin(l, emails) ==
    \E email \in emails, password \in Passwords, ok \in connectOutcomes :
        LET login == [IdleLogin EXCEPT !.email = email, !.password = password]
            route == IF email = 0 \/ password = "missing"
                     THEN loginReply(login, 400)
                     ELSE [login EXCEPT !.pc = "finding"]
        IN  /\ logins[l].pc \in {"idle", "done"}
            /\ email \in UserIds => failedLogins[email] < MaxFailedLogins
            /\ IF mustReconnect
               THEN /\ dbConnectionPromise' = connectDB(ok)
                    /\ readyState' = IF connectDB(ok) THEN 1 ELSE readyState
                    /\ logins' = [logins EXCEPT ![l] =
                           IF connectDB(ok) THEN route ELSE loginReply(login, 503)]
               ELSE /\ logins' = [logins EXCEPT ![l] = route]
                    /\ UNCHANGED <<dbConnectionPromise, readyState>>
            /\ UNCHANGED <<now, ticks, incidents, mongoURI, reqs, analysis, migration, users, failedLogins, alerts>>

\* User.findOne settles: a rejection goes to the catch block
FindOneSettles(l) ==
    /\ logins[l].pc = "finding"
    /\ logins' = [logins EXCEPT ![l] =
           IF readyState # 1 THEN loginReply(@, 500)
           ELSE loginChecks(@, findById(@.email))]
    /\ UNCHANGED <<now, ticks, incidents, readyState, mongoURI, dbConnectionPromise, reqs, analysis, migration, users, failedLogins, alerts>>

\* user.comparePassword settles: handleFailedLogin or handleSuccessfulLogin
\* changes the loaded document and calls save()
CompareSettles(l) ==
    /\ logins[l].pc = "comparing"
    /\ logins' = [logins EXCEPT ![l] =
           [@ EXCEPT !.pc = "saving",
                     !.user = IF logins[l].password = "right"
                              THEN handleSuccessfulLogin(logins[l].user)
                              ELSE handleFailedLogin(logins[l].user)]]
    /\ UNCHANGED <<now, ticks, incidents, readyState, mongoURI, dbConnectionPromise, reqs, analysis, migration, users, failedLogins, alerts>>

\* save() settles: 401 after handleFailedLogin, the token after
\* handleSuccessfulLogin, 500 from the catch block when it rejects
SaveSettles(l) ==
    /\ logins[l].pc = "saving"
    /\ LET login == logins[l]
           u == login.email
       IN  IF readyState # 1
           THEN /\ logins' = [logins EXCEPT ![l] = loginReply(login, 500)]
                /\ UNCHANGED <<users, failedLogins>>
           ELSE /\ users' = [users EXCEPT ![u] = save(@, login.loaded, login.user)]
                /\ logins' = [logins EXCEPT ![l] =
                       loginReply(login, IF login.password = "right" THEN 200 ELSE 401)]
                /\ failedLogins' = [failedLogins EXCEPT ![u] =
                       IF login.password = "right" THEN 0 ELSE @ + 1]
    /\ UNCHANGED <<now, ticks, incidents, readyState, mongoURI, dbConnectionPromise, reqs, analysis, migration, alerts>>

---------------------------------------------------------------------------
(* The database initialization script (initializeDatabase)                 *)

NoError == "none"
MissingURI == "MongoDB connection string not found in environment variables"

\* the indexes the incidents collection can have before the script runs: the
\* name is the sequence of the words that "_" joins, the key is the field
IndexUniverse ==
    {[name |-> <<"_id_">>, key |-> "_id"],
     [name |-> <<"location", "2dsphere">>, key |-> "location"],
     [name |-> <<"geo", "1">>, key |-> "location"],
     [name |-> <<"address.location", "1">>, key |-> "address"],
     [name |-> <<"timestamp", "-1">>, key |-> "timestamp"]}

\* the index incidentSchema declares on location
SchemaLocationIndex == [name |-> <<"location", "2dsphere">>, key |-> "location"]

IdleMigration ==
    [pc |-> "idle",
     uri |-> FALSE,              \* process.env.MONGODB_URI is set
     indexes |-> <<>>,           \* the indexes of the collection, in listing order
     connected |-> FALSE,        \* mongoose.connect has resolved
     existingIndexes |-> <<>>,   \* what the first collection.indexes() resolved to
     locationIndexNames |-> <<>>,
     next |-> 1,                 \* the position of the for loop
     thrown |-> NoError,         \* the error the try block threw
     outcome |-> "none",         \* how the promise of initializeDatabase settled
     error |-> NoError,          \* what it rejected with
     calls |-> <<>>]             \* history: the database calls made, with their results

\* idx.name.includes('location')
nameIncludesLocation(idx) ==
    \E k \in DOMAIN idx.name :
        idx.name[k] \in {"location", "address.location"}

\* existingIndexes.filter(idx => idx.key && (idx.key.location || ...)).map(idx => idx.name)
locationIndexNamesOf(existingIndexes) ==
    LET kept == SelectSeq(existingIndexes,
                    LAMBDA idx : idx.key = "location" \/ nameIncludesLocation(idx))
    IN  [k \in DOMAIN kept |-> kept[k].name]

called(m, op, arg, ok) == [m EXCEPT !.calls = Append(@, [op |-> op, arg |-> arg, ok |-> ok])]

\* mutant: the catch block logs the error and does not throw it again
throwToCatchSilent(m, error) == [m EXCEPT !.pc = "closing"]

\* an error thrown in the try block: the catch block logs it and throws it
\* again, and the finally block closes the connection first
throwToCatch(m, error) == [m EXCEPT !.pc = "closing", !.thrown = error]

\* the for loop over locationIndexNames, up to its next await: an index
\* named '_id_' is skipped; after the loop, Incident.createIndexes()
forLoop(m) ==
    LET rest == {k \in m.next..Len(m.locationIndexNames) :
                    m.locationIndexNames[k] # <<"_id_">>}
    IN  IF rest = {} THEN [m EXCEPT !.pc = "creating", !.next = Len(m.locationIndexNames) + 1]
        ELSE [m EXCEPT !.pc = "dropping",
                       !.next = CHOOSE k \in rest : \A j \in rest : k <= j]

\* initializeDatabase(), up to its first await
StartInitializeDatabase ==
    /\ migration.pc = "idle"
    /\ migration' = IF ~migration.uri
                    THEN throwToCatch(migration, MissingURI)
                    ELSE [migration EXCEPT !.pc = "connecting"]
    /\ UNCHANGED <<now, ticks, incidents, readyState, mongoURI, dbConnectionPromise, reqs,
                     analysis, users, logins, failedLogins, alerts>>

\* await mongoose.connect(mongoURI, ...)
ConnectSettles ==
    \E ok \in BOOLEAN :
        /\ migration.pc = "connecting"
        /\ migration' =
              LET m == called(migration, "connect", <<>>, ok)
              IN  IF ok THEN [m EXCEPT !.pc = "listing", !.connected = TRUE]
                  ELSE throwToCatch(m, "connect")
        /\ UNCHANGED <<now, ticks, incidents, readyState, mongoURI, dbConnectionPromise, reqs,
                     analysis, users, logins, failedLogins, alerts>>

\* await collection.indexes(), and the filter over its result
IndexesSettles ==
    \E ok \in BOOLEAN :
        /\ migration.pc = "listing"
        /\ migration' =
              LET m == called(migration, "indexes", <<>>, ok)
              IN  IF ok
                  THEN forLoop([m EXCEPT !.existingIndexes = m.indexes,
                                         !.locationIndexNames =
                                             locationIndexNamesOf(m.indexes),
                                         !.next = 1])
                  ELSE throwToCatch(m, "indexes")
        /\ UNCHANGED <<now, ticks, incidents, readyState, mongoURI, dbConnectionPromise, reqs,
                     analysis, users, logins, failedLogins, alerts>>

\* await collection.dropIndex(indexName), inside its own try: a failure is
\* logged and the loop goes on
DropIndexSettles ==
    \E ok \in BOOLEAN :
        /\ migration.pc = "dropping"
        /\ migration' =
              LET indexName == migration.locationIndexNames[migration.next]
                  m == called(migration, "dropIndex", indexName, ok)
              IN  forLoop([m EXCEPT !.next = @ + 1,
                                    !.indexes = IF ok
                                                THEN SelectSeq(@, LAMBDA idx : idx.name # indexName)
                                                ELSE @])
        /\ UNCHANGED <<now, ticks, incidents, readyState, mongoURI, dbConnectionPromise, reqs,
                     analysis, users, logins, failedLogins, alerts>>

\* await Incident.createIndexes()
CreateIndexesSettles ==
    \E ok \in BOOLEAN :
        /\ migration.pc = "creating"
        /\ migration' =
              LET m == called(migration, "createIndexes", <<>>, ok)
              IN  IF ok
                  THEN [m EXCEPT !.pc = "verifying",
                                 !.indexes = IF SchemaLocationIndex \in Range(@) THEN @
                                             ELSE Append(@, SchemaLocationIndex)]
                  ELSE throwToCatch(m, "createIndexes")
        /\ UNCHANGED <<now, ticks, incidents, readyState, mongoURI, dbConnectionPromise, reqs,
                     analysis, users, logins, failedLogins, alerts>>

\* const newIndexes = await collection.indexes(), and the summary
VerifySettles ==
    \E ok \in BOOLEAN :
        /\ migration.pc = "verifying"
        /\ migration' =
              LET m == called(migration, "indexes", <<>>, ok)
              IN  IF ok THEN [m EXCEPT !.pc = "closing"]
                  ELSE throwToCatch(m, "indexes")
        /\ UNCHANGED <<now, ticks, incidents, readyState, mongoURI, dbConnectionPromise, reqs,
                     analysis, users, logins, failedLogins, alerts>>

\* finally: await mongoose.connection.close().  Closing a connection that
\* was never opened resolves; an error of close() replaces the pending one.
CloseSettles ==
    \E ok \in BOOLEAN :
        /\ migration.pc = "closing"
        /\ ~migration.connected => ok
        /\ migration' =
              LET m == called(migration, "close", <<>>, ok)
              IN  IF ~ok
                  THEN [m EXCEPT !.pc = "done", !.connected = FALSE,
                                 !.outcome = "rejected", !.error = "close"]
                  ELSE IF m.thrown # NoError
                  THEN [m EXCEPT !.pc = "done", !.connected = FALSE,
                                 !.outcome = "rejected", !.error = m.thrown]
                  ELSE [m EXCEPT !.pc = "done", !.connected = FALSE,
                                 !.outcome = "resolved"]
        /\ UNCHANGED <<now, ticks, incidents, readyState, mongoURI, dbConnectionPromise, reqs,
                     analysis, users, logins, failedLogins, alerts>>

---------------------------------------------------------------------------
(* Spec: reports, moderation and queries over a connected database *)

QueryCentres == {<<0, 0>>, <<0 - 30, 60>>}
QueryRadii ==
    {Undefined,
     NumberToString(calculateDistance(0, 0, 0 - 30, 60)),
     NumberToString(calculateDistance(0, 0, 0 - 30, 60) - 1)}
QuerySince == {Undefined, toISOString(FiveMinutes)}

NearbyQueries ==
    {[lat |-> NumberToString(c[1]), lng |-> NumberToString(c[2]), radius |-> rad,
      since |-> Undefined] : c \in QueryCentres, rad \in QueryRadii}
RecentQueries ==
    {[lat |-> NumberToString(c[1]), lng |-> NumberToString(c[2]), radius |-> rad,
      since |-> s] : c \in QueryCentres, rad \in QueryRadii, s \in QuerySince}

Init ==
    /\ now = 0
    /\ ticks = 0
    /\ incidents = <<>>
    /\ readyState = 1
    /\ mongoURI = TRUE
    /\ dbConnectionPromise = TRUE
    /\ reqs = [r \in Reqs |-> IdleReq]
    /\ analysis = IdleAnalysis
    /\ alerts = IdleAlerts
    /\ failedLogins = NoFailedLogins
    /\ logins = IdleLogins
    /\ users = DefaultUsers
    /\ migration = IdleMigration

Next ==
    \/ \E p \in IncidentPoints : ReportIncident(p)
    \/ \E i \in 1..MaxIncidents : Approve(i)
    \/ \E i \in 1..MaxIncidents : Reject(i)
    \/ \E i \in 1..MaxIncidents : Flag(i)
    \/ \E d \in TickSteps : Tick(d)
    \/ \E r \in Reqs : GetNearby(r, NearbyQueries)
    \/ \E r \in Reqs : GetRecent(r, RecentQueries)
    \/ \E r \in Reqs : Fetch(r)
    \/ \E r \in Reqs : Close(r)

Spec == Init /\ [][Next]_vars

---------------------------------------------------------------------------
(* SpecSafety: reports, moderation and the browser's safety analysis *)

NextSafety ==
    \/ \E p \in IncidentPoints : ReportIncident(p)
    \/ \E i \in 1..MaxIncidents : Approve(i)
    \/ \E i \in 1..MaxIncidents : Reject(i)
    \/ \E i \in 1..MaxIncidents : Flag(i)
    \/ \E d \in TickSteps : Tick(d)
    \/ \E r \in Reqs : Fetch(r)
    \/ \E r \in Reqs, p \in QueryCentres : AnalyzeLocation(r, p)
    \/ \E r \in Reqs : AnalyzeLocationResponse(r)

SpecSafety == Init /\ [][NextSafety]_vars

---------------------------------------------------------------------------
(* Properties of the queries (Spec) *)

Answered(r) == reqs[r].pc = "done"
Listed(r) == Answered(r) /\ reqs[r].status = 200
BodyIds(r) == {reqs[r].body[k].id : k \in DOMAIN reqs[r].body}
distanceFrom(r, doc) ==
    calculateDistance(reqs[r].latitude, reqs[r].longitude, doc.latitude, doc.longitude)

\* C1 - moderation gating: every incident in a nearby or recent response had
\* moderation status approved in the collection at the instant of the
\* request's find(), whatever its distance from the centre.
C1_ModerationGating ==
    \A r \in Reqs : Listed(r) =>
        \A k \in DOMAIN reqs[r].body :
            LET doc == reqs[r].body[k]
            IN  /\ doc.id \in DOMAIN reqs[r].collection
                /\ reqs[r].collection[doc.id].moderation = "approved"
                /\ doc.moderation = "approved"

\* a response with an incident, fetched while an incident that is not
\* approved lay within the radius
C1_Witness ==
    \E r \in Reqs :
        /\ Listed(r)
        /\ reqs[r].body # <<>>
        /\ \E i \in DOMAIN reqs[r].collection :
              /\ reqs[r].collection[i].moderation # "approved"
              /\ Le(distanceFrom(r, reqs[r].collection[i]), reqs[r].searchRadius)

\* C4 - the proximity filter: a fetched candidate is in the response iff its
\* distance from the centre is <= the radius; the response has nothing but
\* fetched candidates, each once.
C4_RadiusInclusive ==
    \A r \in Reqs : Listed(r) =>
        /\ \A k \in DOMAIN reqs[r].fetched :
              (toJSON(reqs[r].fetched[k]) \in Range(reqs[r].body))
                  <=> Le(distanceFrom(r, reqs[r].fetched[k]), reqs[r].searchRadius)
        /\ Range(reqs[r].body) \subseteq {toJSON(d) : d \in Range(reqs[r].fetched)}
        /\ Cardinality(Range(reqs[r].body)) = Len(reqs[r].body)

\* an incident at exactly the radius is in the response
C4_Witness ==
    \E r \in Reqs :
        /\ Listed(r)
        /\ reqs[r].searchRadius > 0
        /\ \E k \in DOMAIN reqs[r].body :
              distanceFrom(r, reqs[r].body[k]) = reqs[r].searchRadius

\* C5 - the nearby response is most-recent-first: it is the subsequence of
\* the timestamp-descending list the find() gave, so a later timestamp never
\* comes after an earlier one.
C5_MostRecentFirst ==
    \A r \in Reqs : Listed(r) /\ reqs[r].route = "nearby" =>
        LET body == reqs[r].body
            listed == [k \in DOMAIN reqs[r].fetched |-> toJSON(reqs[r].fetched[k])]
        IN  /\ \A i, j \in DOMAIN body :
                  i < j => DateParse(body[i].timestamp) >= DateParse(body[j].timestamp)
            /\ body = SelectSeq(listed, LAMBDA d : d \in Range(body))

\* a nearby response with two incidents of different timestamps
C5_Witness ==
    \E r \in Reqs :
        /\ Listed(r)
        /\ reqs[r].route = "nearby"
        /\ Len(reqs[r].body) = 2
        /\ reqs[r].body[1].timestamp # reqs[r].body[2].timestamp

\* the since of a recent request: the given instant, or the time of the
\* request minus five minutes
sinceOf(r) ==
    IF reqs[r].sent.since = Undefined THEN reqs[r].receivedAt - FiveMinutes
    ELSE DateParse(reqs[r].sent.since)

\* C6 - the recent response holds exactly the incidents that were approved,
\* within the radius and with timestamp >= since; without a since parameter,
\* since is the time of the request minus 5 minutes.
C6_RecentSince ==
    \A r \in Reqs : Listed(r) /\ reqs[r].route = "recent" =>
        BodyIds(r) =
            {i \in DOMAIN reqs[r].collection :
                LET d == reqs[r].collection[i]
                IN  /\ d.moderation = "approved"
                    /\ d.timestamp >= sinceOf(r)
                    /\ Le(distanceFrom(r, d), reqs[r].searchRadius)}

\* a recent request without since whose response has an incident reported
\* exactly five minutes before the request
C6_Witness ==
    \E r \in Reqs :
        /\ Listed(r)
        /\ reqs[r].route = "recent"
        /\ reqs[r].sent.since = Undefined
        /\ \E k \in DOMAIN reqs[r].body :
              DateParse(reqs[r].body[k].timestamp) = reqs[r].receivedAt - FiveMinutes

---------------------------------------------------------------------------
(* Properties of the safety analysis (SpecSafety) *)

inWindow(doc) == DateParse(doc.timestamp) > analysis.analysedAt - OneWeek

\* C7 - the analysis fetches /nearby for the clicked point with radius
\* 1000 m; incidentCount is the number of incidents of that response inside
\* the 7-day window and recentIncidents is that sublist; an incident at least
\* 7 days old is in the nearby response and does not count: alone, it gives
\* tier safe with count 0.
C7_WindowOfNearby ==
    /\ \A r \in Reqs : reqs[r].origin = "analysis" =>
          /\ reqs[r].route = "nearby"
          /\ reqs[r].pc = "fetching" =>
                /\ reqs[r].searchRadius = 1000
                /\ reqs[r].latitude = analysis.location[1]
                /\ reqs[r].longitude = analysis.location[2]
    /\ analysis.pc = "shown" =>
          LET recent == SelectSeq(analysis.incidents, inWindow)
          IN  /\ analysis.safetyData.incidentCount = Len(recent)
              /\ analysis.safetyData.recentIncidents = recent
              /\ \A k \in DOMAIN analysis.incidents :
                    LET doc == analysis.incidents[k]
                    IN  /\ doc.moderation = "approved"
                        /\ calculateDistance(analysis.location[1], analysis.location[2],
                                             doc.latitude, doc.longitude) <= 1000
              /\ (Len(analysis.incidents) = 1 /\ recent = <<>>) =>
                    /\ analysis.safetyData.level = "safe"
                    /\ analysis.safetyData.incidentCount = 0

\* an analysis whose nearby response is one incident, 7 days old
C7_Witness ==
    /\ analysis.pc = "shown"
    /\ Len(analysis.incidents) = 1
    /\ DateParse(analysis.incidents[1].timestamp) = analysis.analysedAt - OneWeek
    /\ analysis.safetyData.level = "safe"
    /\ analysis.safetyData.incidentCount = 0

---------------------------------------------------------------------------
(* SpecClassify: calculateSafetyLevel over the lists a nearby response can be *)

\* the ages of the listed incidents when calculateSafetyLevel runs
ClassifyAges == {0, OneWeek - 1000, OneWeek - 1, OneWeek, OneWeek + 1}
ClassifyNow == OneWeek + FiveMinutes

\* the browser waits for the answer to its fetch; the database holds n
\* approved incidents at the clicked point, reported in the order of their
\* timestamps, and the response lists them latest first
InitClassify ==
    /\ now = ClassifyNow
    /\ ticks = 0
    /\ readyState = 1
    /\ mongoURI = TRUE
    /\ dbConnectionPromise = TRUE
    /\ analysis = [IdleAnalysis EXCEPT !.pc = "waiting"]
    /\ alerts = IdleAlerts
    /\ failedLogins = NoFailedLogins
    /\ logins = IdleLogins
    /\ users = DefaultUsers
    /\ migration = IdleMigration
    /\ \E n \in 0..MaxListLen :
          \E age \in [1..n -> ClassifyAges] :
              /\ \A i, j \in 1..n : i < j => age[i] >= age[j]
              /\ incidents = [i \in 1..n |->
                     [id |-> i, latitude |-> 0, longitude |-> 0,
                      timestamp |-> ClassifyNow - age[i], moderation |-> "approved", title |-> "reported"]]
    /\ reqs = [r \in Reqs |->
          respond(nearbyHandler(
                      [IdleReq EXCEPT !.route = "nearby", !.origin = "analysis",
                           !.query = [NoQuery EXCEPT !.lat = NumberToString(0),
                                                     !.lng = NumberToString(0),
                                                     !.radius = NumberToString(AnalysisRadius)],
                           !.sent = [NoQuery EXCEPT !.lat = NumberToString(0),
                                                    !.lng = NumberToString(0),
                                                    !.radius = NumberToString(AnalysisRadius)],
                           !.receivedAt = ClassifyNow]),
                  [i \in 1..Len(incidents) |-> incidents[Len(incidents) + 1 - i]])]

NextClassify == \E r \in Reqs : AnalyzeLocationResponse(r)

SpecClassify == InitClassify /\ [][NextClassify]_vars

\* the number of listed incidents less than 7 days old when classified
windowCount == Cardinality({k \in DOMAIN analysis.incidents : inWindow(analysis.incidents[k])})

\* C2 - the tier follows the count n of incidents inside the 7-day window:
\* n = 0 safe, n = 1 or 2 warning, n >= 3 danger; one tier for every list.
C2_TierThresholds ==
    analysis.pc = "shown" =>
        /\ analysis.safetyData.level \in {"safe", "warning", "danger"}
        /\ windowCount = 0 => analysis.safetyData.level = "safe"
        /\ windowCount \in {1, 2} => analysis.safetyData.level = "warning"
        /\ windowCount >= 3 => analysis.safetyData.level = "danger"

\* a list with exactly three incidents inside the window and one outside
C2_Witness ==
    /\ analysis.pc = "shown"
    /\ windowCount = 3
    /\ Len(analysis.incidents) = 4
    /\ analysis.safetyData.level = "danger"

ageOf(doc) == analysis.analysedAt - DateParse(doc.timestamp)

\* C3 - an incident is counted as recent iff it is less than 7 days old:
\* 7 days minus 1 second is counted, exactly 7 days or more is not.
C3_StrictWindow ==
    analysis.pc = "shown" =>
        /\ \A k \in DOMAIN analysis.incidents :
              (analysis.incidents[k] \in Range(analysis.safetyData.recentIncidents))
                  <=> ageOf(analysis.incidents[k]) < OneWeek
        /\ analysis.safetyData.incidentCount =
              Cardinality({k \in DOMAIN analysis.incidents :
                              ageOf(analysis.incidents[k]) < OneWeek})

\* a list with an incident aged 7 days minus 1 second, counted, and one aged
\* exactly 7 days, not counted
C3_Witness ==
    /\ analysis.pc = "shown"
    /\ \E k \in DOMAIN analysis.incidents :
          /\ ageOf(analysis.incidents[k]) = OneWeek - 1000
          /\ analysis.incidents[k] \in Range(analysis.safetyData.recentIncidents)
    /\ \E k \in DOMAIN analysis.incidents :
          /\ ageOf(analysis.incidents[k]) = OneWeek
          /\ analysis.incidents[k] \notin Range(analysis.safetyData.recentIncidents)
    /\ analysis.safetyData.incidentCount = 1

---------------------------------------------------------------------------
(* SpecHttp: the query strings a client can send, over a database whose     *)
(* connection comes and goes                                               *)

LatTokens ==
    {Undefined, <<>>, <<" ">>, <<"0">>, <<"9", "0">>, <<"9", "1">>,
     <<"-", "9", "1">>, <<"a", "b", "c">>, <<"3", "0", "x">>}
LngTokens ==
    {Undefined, <<>>, <<"0">>, <<"1", "8", "0">>, <<"1", "8", "1">>,
     <<"-", "1", "8", "1">>, <<"x">>}
RadiusTokens ==
    {Undefined, <<>>, <<"1", "0", "0", "0">>, <<"a", "b", "c">>, <<"-", "1">>}
SinceTokens == {Undefined, <<"T", "0">>, <<"b", "a", "d">>}

HttpNearbyQueries ==
    {[lat |-> la, lng |-> ln, radius |-> rad, since |-> Undefined] :
        la \in LatTokens, ln \in LngTokens, rad \in RadiusTokens}
HttpRecentQueries ==
    {[lat |-> la, lng |-> ln, radius |-> rad, since |-> si] :
        la \in LatTokens, ln \in LngTokens, rad \in RadiusTokens, si \in SinceTokens}

\* the server has started: connectDB() has resolved, to true with the
\* connection ready, or to false (no MONGODB_URI, or the connection failed);
\* the collection holds two approved incidents
InitHttp ==
    /\ now = FiveMinutes
    /\ ticks = 0
    /\ incidents =
          <<[id |-> 1, latitude |-> 0, longitude |-> 0, timestamp |-> 0,
             moderation |-> "approved", title |-> "reported"],
            [id |-> 2, latitude |-> 90, longitude |-> 0, timestamp |-> FiveMinutes,
             moderation |-> "approved", title |-> "reported"]>>
    /\ mongoURI \in BOOLEAN
    /\ dbConnectionPromise \in BOOLEAN
    /\ dbConnectionPromise => mongoURI
    /\ readyState = IF dbConnectionPromise THEN 1 ELSE 0
    /\ reqs = [r \in Reqs |-> IdleReq]
    /\ analysis = IdleAnalysis
    /\ alerts = IdleAlerts
    /\ failedLogins = NoFailedLogins
    /\ logins = IdleLogins
    /\ users = DefaultUsers
    /\ migration = IdleMigration

NextHttp ==
    \/ \E r \in Reqs : GetNearby(r, HttpNearbyQueries)
    \/ \E r \in Reqs : GetRecent(r, HttpRecentQueries)
    \/ \E r \in Reqs : Fetch(r)
    \/ \E r \in Reqs : Close(r)
    \/ ConnectionLost
    \/ ConnectionRestored

SpecHttp == InitHttp /\ [][NextHttp]_vars

\* the parameter is not in the query string, or has no value
Lacks(s) == s = Undefined \/ s = <<>>

\* the text of a whole number
IsNumeral(s) ==
    /\ s # Undefined
    /\ s # <<>>
    /\ LET u == IF Head(s) = "-" THEN Tail(s) ELSE s
       IN  u # <<>> /\ DigitPrefix(u) = u
NumeralValue(s) ==
    IF Head(s) = "-" THEN 0 - DigitsValue(Tail(s)) ELSE DigitsValue(s)

\* a parameter that is given and is not a number
Malformed(s) == ~Lacks(s) /\ ~IsNumeral(s)
OutOfRange(s, lo, hi) == IsNumeral(s) /\ (NumeralValue(s) < lo \/ NumeralValue(s) > hi)

MissingMessage == "Missing required parameters: lat, lng"

C9_InvalidNever200 ==
    \A r \in Reqs :
        (/\ Answered(r)
         /\ \/ Malformed(reqs[r].sent.lat)
            \/ Malformed(reqs[r].sent.lng)
            \/ Malformed(reqs[r].sent.radius)
            \/ OutOfRange(reqs[r].sent.lat, 0 - 90, 90)
            \/ OutOfRange(reqs[r].sent.lng, 0 - 180, 180))
        => reqs[r].status # 200

\* C10, as claimed - a request rejected with 400 has started no database
\* operation.
C10_NoDatabaseBefore400 ==
    \A r \in Reqs :
        Answered(r) /\ reqs[r].status = 400 => reqs[r].dbOps = <<>>

\* C10, amended - a request rejected with 400 has started no find(); the
\* database operations started for it are none, or the connect and the index
\* creation of the connection middleware's reconnection.
C10_NoFindBefore400 ==
    \A r \in Reqs :
        Answered(r) /\ reqs[r].status = 400 =>
            /\ \A k \in DOMAIN reqs[r].dbOps : reqs[r].dbOps[k] # "find"
            /\ reqs[r].dbOps \in {<<>>, <<"connect", "createIndexes">>}

\* a request rejected with 400 after the middleware reconnected
C10_Witness ==
    \E r \in Reqs :
        /\ Answered(r)
        /\ reqs[r].status = 400
        /\ reqs[r].dbOps = <<"connect", "createIndexes">>

---------------------------------------------------------------------------
(* Failures of the repository (SpecHttp) *)

finds(r) == {k \in DOMAIN reqs[r].dbOps : reqs[r].dbOps[k] = "find"}

\* C11 - when the find() of a nearby or recent request rejects, the request
\* is answered with a 5xx error and no result list, and the find() was
\* started once: no request ever starts a second find().
C11_FetchFailureIs5xx ==
    \A r \in Reqs :
        /\ Cardinality(finds(r)) <= 1
        /\ reqs[r].findRejected =>
              /\ Answered(r)
              /\ reqs[r].status \in 500..599
              /\ reqs[r].error = failureMessage(reqs[r])
              /\ reqs[r].body = <<>>
              /\ Cardinality(finds(r)) = 1

\* a request whose find() rejected because the connection was lost after
\* the request had passed the connection middleware
C11_Witness ==
    \E r \in Reqs :
        /\ reqs[r].findRejected
        /\ readyState # 1
        /\ ~IsNaN(reqs[r].sinceDate)
        /\ reqs[r].status = 500

\* a step of a request: it arrives and runs to its first await or to its
\* answer, or its find() settles and it runs to its answer
queryStep(r) == reqs'[r] # reqs[r] /\ reqs'[r].pc # "idle"

\* C12 - the nearby and recent queries are read-only: no step of a request,
\* whatever its parameters and whether it ends 200, 400, 500 or 503, changes
\* the collection: the same incidents, each with the same fields.
C12_QueriesReadOnly ==
    [][(\E r \in Reqs : queryStep(r)) => incidents' = incidents]_vars

\* a recent request answered 200 with an incident, the collection being what
\* it was before the server started
C12_Witness ==
    \E r \in Reqs :
        /\ Listed(r)
        /\ reqs[r].route = "recent"
        /\ reqs[r].body # <<>>
        /\ Len(incidents) = 2
        /\ \A i \in DOMAIN incidents : incidents[i].moderation = "approved"

---------------------------------------------------------------------------
(* The moderation workflow (Spec) *)

\* C13 - the moderation status of an incident changes only from pending, to
\* approved, rejected or flagged: an incident whose status is approved,
\* rejected or flagged keeps it in every step.
C13_OnlyFromPending ==
    [][\A i \in DOMAIN incidents :
          incidents'[i].moderation # incidents[i].moderation =>
              /\ incidents[i].moderation = "pending"
              /\ incidents'[i].moderation \in {"approved", "rejected", "flagged"}]_vars

---------------------------------------------------------------------------
(* SpecConcurrent: two clients whose requests overlap each other and the    *)
(* reports and moderation actions                                           *)

ConcReqs == {1, 2}

ConcNearbyQueries ==
    {[lat |-> NumberToString(c[1]), lng |-> NumberToString(c[2]), radius |-> Undefined,
      since |-> Undefined] : c \in QueryCentres}
ConcRecentQueries ==
    {[lat |-> NumberToString(c[1]), lng |-> NumberToString(c[2]), radius |-> Undefined,
      since |-> toISOString(FiveMinutes)] : c \in QueryCentres}

InitConcurrent ==
    /\ now = 0
    /\ ticks = 0
    /\ incidents = <<>>
    /\ readyState = 1
    /\ mongoURI = TRUE
    /\ dbConnectionPromise = TRUE
    /\ reqs = [r \in ConcReqs |-> IdleReq]
    /\ analysis = IdleAnalysis
    /\ alerts = IdleAlerts
    /\ failedLogins = NoFailedLogins
    /\ logins = IdleLogins
    /\ users = DefaultUsers
    /\ migration = IdleMigration

NextConcurrent ==
    \/ \E p \in IncidentPoints : ReportIncident(p)
    \/ \E i \in 1..MaxIncidents : Approve(i)
    \/ \E i \in 1..MaxIncidents : Reject(i)
    \/ Tick(FiveMinutes)
    \/ \E r \in ConcReqs : GetNearby(r, ConcNearbyQueries)
    \/ \E r \in ConcReqs : GetRecent(r, ConcRecentQueries)
    \/ \E r \in ConcReqs : Fetch(r)
    \/ \E r \in ConcReqs : Close(r)

SpecConcurrent == InitConcurrent /\ [][NextConcurrent]_vars

\* what the request asked for, read from the query string as it was sent
askedCentre(r) == <<parseFloat(reqs[r].sent.lat), parseFloat(reqs[r].sent.lng)>>
askedRadius(r) ==
    IF reqs[r].sent.radius = Undefined THEN DefaultRadius ELSE parseFloat(reqs[r].sent.radius)

\* C14 - whatever the interleaving of two clients' requests with each other
\* and with reports and moderation, a response is the radius filter (and, for
\* recent, the since filter) of what the request itself asked, over the
\* incidents that were approved at the instant of its own find(); a request
\* awaiting its find() holds its own parameters and nothing of an earlier one.
C14_OwnSnapshot ==
    \A r \in ConcReqs :
        /\ reqs[r].pc = "fetching" =>
              /\ <<reqs[r].latitude, reqs[r].longitude>> = askedCentre(r)
              /\ reqs[r].searchRadius = askedRadius(r)
              /\ reqs[r].body = <<>>
              /\ reqs[r].fetched = <<>>
        /\ Listed(r) =>
              BodyIds(r) =
                  {i \in DOMAIN reqs[r].collection :
                      LET d == reqs[r].collection[i]
                      IN  /\ d.moderation = "approved"
                          /\ reqs[r].route = "recent" => d.timestamp >= sinceOf(r)
                          /\ Le(calculateDistance(askedCentre(r)[1], askedCentre(r)[2],
                                                  d.latitude, d.longitude),
                                askedRadius(r))}

\* one request is answered with an incident that was reported after the
\* request arrived, while the other client's request for another centre,
\* which arrived first, still awaits its find()
C14_Witness ==
    \E r, q \in ConcReqs :
        /\ r # q
        /\ Listed(r)
        /\ \E k \in DOMAIN reqs[r].body :
              DateParse(reqs[r].body[k].timestamp) > reqs[r].receivedAt
        /\ reqs[q].pc = "fetching"
        /\ reqs[q].receivedAt < DateParse(reqs[r].body[1].timestamp)
        /\ askedCentre(q) # askedCentre(r)

---------------------------------------------------------------------------
(* The two filters of the recent query (Spec) *)

approvedAt(r) == {d \in Range(reqs[r].collection) : d.moderation = "approved"}
temporalFilter(r, docs) == {d \in docs : d.timestamp >= sinceOf(r)}
spatialFilter(r, docs) == {d \in docs : Le(distanceFrom(r, d), reqs[r].searchRadius)}

\* C15 - the temporal filter (timestamp >= since) and the spatial filter
\* (distance <= radius) commute: the recent response, which the route builds
\* by the time filter of its find() followed by the distance filter, is the
\* set the distance filter followed by the time filter gives over the same
\* approved incidents.
C15_FiltersCommute ==
    \A r \in Reqs : Listed(r) /\ reqs[r].route = "recent" =>
        /\ Range(reqs[r].fetched) = temporalFilter(r, approvedAt(r))
        /\ Range(reqs[r].body) =
              {toJSON(d) : d \in spatialFilter(r, Range(reqs[r].fetched))}
        /\ Range(reqs[r].body) =
              {toJSON(d) : d \in temporalFilter(r, spatialFilter(r, approvedAt(r)))}

\* a recent response over two approved incidents: one inside the radius and
\* older than since, which only the time filter removes, and one newer than
\* since and outside the radius, which only the distance filter removes
C15_Witness ==
    \E r \in Reqs :
        /\ Listed(r)
        /\ reqs[r].route = "recent"
        /\ \E a, b \in approvedAt(r) :
              /\ a \in spatialFilter(r, {a}) /\ a \notin temporalFilter(r, {a})
              /\ b \in temporalFilter(r, {b}) /\ b \notin spatialFilter(r, {b})

---------------------------------------------------------------------------
(* SpecDistance: calculateDistance over a grid of points, as the nearby     *)
(* route applies it to its centre and a candidate                           *)

GridLatitudes == {0 - 90, 0 - 60, 0 - 30, 0, 30, 60, 90}
GridLongitudes == {0 - 180, 0 - 120, 0 - 60, 0, 60, 120, 180}
GridPoints == GridLatitudes \X GridLongitudes

DistanceQueries ==
    {[lat |-> NumberToString(c[1]), lng |-> NumberToString(c[2]), radius |-> Undefined,
      since |-> Undefined] : c \in GridPoints}

\* the collection holds one approved incident, at a point of the grid
InitDistance ==
    /\ now = 0
    /\ ticks = 0
    /\ \E b \in GridPoints :
          incidents = <<[id |-> 1, latitude |-> b[1], longitude |-> b[2],
                         timestamp |-> 0, moderation |-> "approved", title |-> "reported"]>>
    /\ readyState = 1
    /\ mongoURI = TRUE
    /\ dbConnectionPromise = TRUE
    /\ reqs = [r \in Reqs |-> IdleReq]
    /\ analysis = IdleAnalysis
    /\ alerts = IdleAlerts
    /\ failedLogins = NoFailedLogins
    /\ logins = IdleLogins
    /\ users = DefaultUsers
    /\ migration = IdleMigration

NextDistance ==
    \/ \E r \in Reqs : GetNearby(r, DistanceQueries)
    \/ \E r \in Reqs : Fetch(r)
    \/ \E r \in Reqs : Close(r)

SpecDistance == InitDistance /\ [][NextDistance]_vars

\* C16 - the Haversine distance is symmetric: the distance the route computes
\* from its centre a to a candidate b is calculateDistance from b to a (the
\* same number; the tolerance of the claim is not needed).
C16_Symmetric ==
    \A r \in Reqs : Listed(r) =>
        \A k \in DOMAIN reqs[r].fetched :
            LET b == reqs[r].fetched[k]
            IN  reqs[r].distances[k] =
                    calculateDistance(b.latitude, b.longitude,
                                      reqs[r].latitude, reqs[r].longitude)

\* a distance computed between two points that differ in latitude and in
\* longitude, neither of them on the equator
C16_Witness ==
    \E r \in Reqs :
        /\ Listed(r)
        /\ Len(reqs[r].fetched) = 1
        /\ reqs[r].distances[1] > 0
        /\ reqs[r].fetched[1].latitude # reqs[r].latitude
        /\ reqs[r].fetched[1].longitude # reqs[r].longitude
        /\ reqs[r].latitude # 0
        /\ reqs[r].fetched[1].latitude # 0
        /\ Abs(reqs[r].fetched[1].latitude) # Abs(reqs[r].latitude)

---------------------------------------------------------------------------
(* SpecMigration: one run of the initializeDatabase script *)

\* the listings of the indexes of a collection: the indexes in any order,
\* none twice, the default _id index among them
IndexListings ==
    UNION {{s \in [1..n -> IndexUniverse] :
               /\ \A i, j \in 1..n : i # j => s[i] # s[j]
               /\ \E i \in 1..n : s[i].key = "_id"} : n \in 1..Cardinality(IndexUniverse)}

InitMigration ==
    /\ now = 0
    /\ ticks = 0
    /\ incidents = <<>>
    /\ readyState = 0
    /\ mongoURI = FALSE
    /\ dbConnectionPromise = FALSE
    /\ reqs = [r \in Reqs |-> IdleReq]
    /\ analysis = IdleAnalysis
    /\ alerts = IdleAlerts
    /\ failedLogins = NoFailedLogins
    /\ logins = IdleLogins
    /\ users = DefaultUsers
    /\ \E uri \in BOOLEAN, listing \in IndexListings :
          migration = [IdleMigration EXCEPT !.uri = uri, !.indexes = listing]

NextMigration ==
    \/ StartInitializeDatabase
    \/ ConnectSettles
    \/ IndexesSettles
    \/ DropIndexSettles
    \/ CreateIndexesSettles
    \/ VerifySettles
    \/ CloseSettles

SpecMigration == InitMigration /\ [][NextMigration]_vars

callsOf(op) == {k \in DOMAIN migration.calls : migration.calls[k].op = op}
succeeded(op) == \E k \in callsOf(op) : migration.calls[k].ok
failed(op) == \E k \in callsOf(op) : ~migration.calls[k].ok

\* the indexes of the first listing that the script is to remove
conflicting ==
    {idx \in Range(migration.existingIndexes) :
        /\ idx.key = "location" \/ nameIncludesLocation(idx)
        /\ idx.name # <<"_id_">>}

\* C17 - initializeDatabase rejects with the error of the try block when
\* MONGODB_URI is absent ('MongoDB connection string not found ...', and no
\* connect is called) and when mongoose.connect rejects; it resolves only
\* after connect resolved, dropIndex was called and settled for every
\* conflicting location index (a drop that fails is logged and passed over),
\* and createIndexes resolved; it is not settled before its finally block
\* has closed the connection.
C17_InitializeDatabaseSettles ==
    /\ migration.pc # "done" => migration.outcome = "none"
    /\ migration.pc = "done" =>
          /\ migration.outcome \in {"resolved", "rejected"}
          /\ ~migration.uri =>
                /\ migration.outcome = "rejected"
                /\ migration.error = MissingURI
                /\ callsOf("connect") = {}
          /\ failed("connect") =>
                /\ migration.outcome = "rejected"
                /\ migration.error = "connect"
          /\ migration.outcome = "resolved" =>
                /\ migration.uri
                /\ succeeded("connect")
                /\ Cardinality(callsOf("indexes")) = 2
                /\ ~failed("indexes")
                /\ \A idx \in conflicting :
                      \E k \in callsOf("dropIndex") : migration.calls[k].arg = idx.name
                /\ succeeded("createIndexes")
                /\ \A k \in callsOf("dropIndex"), c \in callsOf("createIndexes") : k < c
                /\ \A k \in callsOf("connect"), c \in callsOf("createIndexes") : k < c
                /\ migration.error = NoError

\* a run that resolved after dropping two conflicting indexes
C17_Witness ==
    /\ migration.pc = "done"
    /\ migration.outcome = "resolved"
    /\ Cardinality(conflicting) >= 2
    /\ \A k \in callsOf("dropIndex") : migration.calls[k].ok

---------------------------------------------------------------------------
(* SpecPublish: reports, moderation, and the three public queries *)

PublishQuery ==
    [lat |-> NumberToString(0), lng |-> NumberToString(0),
     radius |-> NumberToString(calculateDistance(0, 0, 0 - 30, 60)), since |-> Undefined]

\* no header, the token of the user, the token of the moderator
PublishTokens == {NoToken, [kind |-> "valid", userId |-> 2], [kind |-> "valid", userId |-> 1]}

NextPublish ==
    \/ \E p \in IncidentPoints : ReportIncident(p)
    \/ \E i \in 1..MaxIncidents : Approve(i)
    \/ \E i \in 1..MaxIncidents : Reject(i)
    \/ \E i \in 1..MaxIncidents : Flag(i)
    \/ \E r \in Reqs : GetNearby(r, {PublishQuery})
    \/ \E r \in Reqs : GetRecent(r, {PublishQuery})
    \/ \E r \in Reqs : GetList(r, PublishTokens)
    \/ \E r \in Reqs : UserLookup(r)
    \/ \E r \in Reqs : Fetch(r)
    \/ \E r \in Reqs : Close(r)

SpecPublish == Init /\ [][NextPublish]_vars

\* the caller of the request is a moderator or an admin in good standing
byModerator(r) ==
    /\ reqs[r].token.kind = "valid"
    /\ reqs[r].token.userId \in DOMAIN users
    /\ users[reqs[r].token.userId].role \in {"moderator", "admin"}
    /\ users[reqs[r].token.userId].isActive
    /\ ~users[reqs[r].token.userId].isBanned

\* every incident of a response to a caller who is not a moderator was
\* approved when the response was made
publicOnlyApproved ==
    \A r \in Reqs : Listed(r) /\ ~byModerator(r) =>
        \A k \in DOMAIN reqs[r].body :
            reqs[r].collection[reqs[r].body[k].id].moderation = "approved"

\* a report stores a pending incident, and an incident becomes approved in no
\* step but an approve action on it
approvedOnlyByApprove ==
    /\ Len(incidents') > Len(incidents) =>
          /\ Len(incidents') = Len(incidents) + 1
          /\ incidents'[Len(incidents')].moderation = "pending"
    /\ \A i \in DOMAIN incidents :
          /\ i \in DOMAIN incidents'
          /\ (incidents'[i].moderation = "approved" /\ incidents[i].moderation # "approved")
                 => Approve(i)

\* C18 - a newly reported incident is stored with moderation status pending,
\* and it is in no nearby, recent or list response to a caller who is not a
\* moderator before an approve action on it has completed: such responses
\* hold approved incidents only, and nothing but the approve action makes an
\* incident approved.
C18_ReviewedBeforePublished ==
    []publicOnlyApproved /\ [][approvedOnlyByApprove]_vars

\* the list, asked without a token while one incident was approved and a
\* newer one was still pending, holds the approved one alone
C18_Witness ==
    \E r \in Reqs :
        /\ Listed(r)
        /\ reqs[r].route = "list"
        /\ reqs[r].token = NoToken
        /\ Len(reqs[r].collection) = 2
        /\ reqs[r].collection[1].moderation = "approved"
        /\ reqs[r].collection[2].moderation = "pending"
        /\ BodyIds(r) = {1}

---------------------------------------------------------------------------
(* SpecAccess: GET /api/incidents by callers of every kind, while accounts  *)
(* are banned, deactivated and given roles                                  *)

\* no header, a header jwt.verify throws on, and tokens signed for the two
\* accounts and for an account that does not exist
AccessTokens ==
    {NoToken, [kind |-> "malformed", userId |-> 0], [kind |-> "expired", userId |-> 1]}
        \cup {[kind |-> "valid", userId |-> u] : u \in UserIds \cup {3}}

\* the collection holds an approved incident and a pending one
InitAccess ==
    /\ now = FiveMinutes
    /\ ticks = 0
    /\ incidents =
          <<[id |-> 1, latitude |-> 0, longitude |-> 0, timestamp |-> 0,
             moderation |-> "approved", title |-> "reported"],
            [id |-> 2, latitude |-> 0, longitude |-> 0, timestamp |-> FiveMinutes,
             moderation |-> "pending", title |-> "reported"]>>
    /\ readyState = 1
    /\ mongoURI = TRUE
    /\ dbConnectionPromise = TRUE
    /\ reqs = [r \in Reqs |-> IdleReq]
    /\ analysis = IdleAnalysis
    /\ alerts = IdleAlerts
    /\ failedLogins = NoFailedLogins
    /\ logins = IdleLogins
    /\ migration = IdleMigration
    /\ users = DefaultUsers

NextAccess ==
    \/ \E u \in UserIds : BanUser(u)
    \/ \E u \in UserIds : UnbanUser(u)
    \/ \E u \in UserIds : RequestDeletion(u)
    \/ \E u \in UserIds, role \in Roles : SetRole(u, role)
    \/ ConnectionLost
    \/ ConnectionRestored
    \/ \E r \in Reqs : GetList(r, AccessTokens)
    \/ \E r \in Reqs : UserLookup(r)
    \/ \E r \in Reqs : Fetch(r)
    \/ \E r \in Reqs : Close(r)

SpecAccess == InitAccess /\ [][NextAccess]_vars

\* the response holds an incident that is not approved
holdsUnapproved(r) ==
    \E k \in DOMAIN reqs[r].body : reqs[r].body[k].moderation # "approved"

\* C19 - GET /api/incidents returns an incident that is not approved only to
\* a caller whose token jwt.verify accepts and whose account, as optionalAuth
\* found it during the request, is active, not banned and has role admin or
\* moderator; every other caller receives approved incidents only.
C19_UnapprovedToModeratorsOnly ==
    \A r \in Reqs : (Listed(r) /\ reqs[r].route = "list" /\ holdsUnapproved(r)) =>
        /\ reqs[r].token.kind = "valid"
        /\ reqs[r].token.userId \in UserIds
        /\ reqs[r].found # NoDocument
        /\ reqs[r].found.isActive
        /\ ~reqs[r].found.isBanned
        /\ reqs[r].found.role \in {"admin", "moderator"}

\* the pending incident is listed to the account that signed up as a user and
\* was made an admin since
C19_Witness ==
    \E r \in Reqs :
        /\ Listed(r)
        /\ reqs[r].route = "list"
        /\ holdsUnapproved(r)
        /\ reqs[r].token = [kind |-> "valid", userId |-> 2]
        /\ reqs[r].found.role = "admin"

\* a banned moderator receives the approved incident alone
C19_WitnessRefused ==
    \E r \in Reqs :
        /\ Listed(r)
        /\ reqs[r].route = "list"
        /\ reqs[r].found.role = "moderator"
        /\ reqs[r].found.isBanned
        /\ BodyIds(r) = {1}

---------------------------------------------------------------------------
(* SpecLogin: two login requests in flight at a time, and the clock         *)

\* no email, the moderator's email and an email of no account
LoginEmails == {0, 1, 3}

NextLogin ==
    \/ \E l \in LoginReqs : PostLogin(l, LoginEmails)
    \/ \E l \in LoginReqs : FindOneSettles(l)
    \/ \E l \in LoginReqs : CompareSettles(l)
    \/ \E l \in LoginReqs : SaveSettles(l)
    \/ Tick(FiveMinutes)
    \/ Tick(TwoHours)

SpecLogin == Init /\ [][NextLogin]_vars

\* C20 - An account that has been answered 5 failed logins since its last
\* successful login has been locked: handleFailedLogin has set lockUntil.
C20_LockedAfterFive ==
    \A u \in UserIds :
        failedLogins[u] >= MaxLoginAttempts => users[u].lockUntil # NoDate

---------------------------------------------------------------------------
(* SpecById: GET, PUT and DELETE /api/incidents/:id by callers of every     *)
(* kind, over an approved and a pending incident                            *)

NextById ==
    \/ \E u \in UserIds, role \in Roles : SetRole(u, role)
    \/ \E r \in Reqs : GetIncident(r, AccessTokens)
    \/ \E r \in Reqs : FindByIdSettles(r)
    \/ \E r \in Reqs : PutIncident(r, AccessTokens)
    \/ \E r \in Reqs : UpdateSettles(r)
    \/ \E r \in Reqs : DeleteIncident(r, AccessTokens)
    \/ \E r \in Reqs : DeleteSettles(r)
    \/ \E r \in Reqs : Close(r)

SpecById == InitAccess /\ [][NextById]_vars

\* the request carries a token that jwt.verify accepts, of an active account
\* that is not banned and has role admin
callerIsAdmin(req) ==
    /\ req.token.kind = "valid"
    /\ req.token.userId \in UserIds
    /\ users[req.token.userId].role = "admin"
    /\ users[req.token.userId].isActive
    /\ ~users[req.token.userId].isBanned

\* C21 - A PUT or DELETE /api/incidents/:id request changes the stored
\* incidents only when its caller is an authenticated admin.
C21_OnlyAdminsUpdateOrDelete ==
    [][\A r \in Reqs :
          (reqs[r].route \in {"put", "delete"} /\ reqs[r].pc = "querying"
             /\ incidents' # incidents) => callerIsAdmin(reqs[r])]_vars

\* C28 - GET /api/incidents/:id answers a caller without a valid token with
\* an incident only when the incident's moderation status is approved.
C28_ByIdPublicOnlyApproved ==
    \A r \in Reqs :
        (Listed(r) /\ reqs[r].route = "byId" /\ reqs[r].token.kind # "valid") =>
            \A k \in DOMAIN reqs[r].body : reqs[r].body[k].moderation = "approved"

---------------------------------------------------------------------------
(* SpecBan: an admin bans and unbans the user, one request at a time, while *)
(* the user's own requests are in flight                                    *)

\* the accounts after the grant-admin script made account 1 an admin
AdminUsers == [DefaultUsers EXCEPT ![1].role = "admin"]

AdminToken == [kind |-> "valid", userId |-> 1]
UserToken == [kind |-> "valid", userId |-> 2]

InitBan ==
    /\ now = 0
    /\ ticks = 0
    /\ incidents = <<>>
    /\ readyState = 1
    /\ mongoURI = TRUE
    /\ dbConnectionPromise = TRUE
    /\ reqs = [r \in ConcReqs |-> IdleReq]
    /\ analysis = IdleAnalysis
    /\ alerts = IdleAlerts
    /\ migration = IdleMigration
    /\ users = AdminUsers
    /\ logins = IdleLogins
    /\ failedLogins = NoFailedLogins

NextBan ==
    \/ PostBan(1, {AdminToken, UserToken}, UserIds, {0})
    \/ PostUnban(1, {AdminToken}, {2})
    \/ PostConsent(2, {UserToken})
    \/ GetList(2, {UserToken})
    \/ \E r \in ConcReqs : AuthSettles(r)
    \/ \E r \in ConcReqs : UserFound(r)
    \/ \E r \in ConcReqs : UserSaved(r)
    \/ \E r \in ConcReqs : UserLookup(r)
    \/ \E r \in ConcReqs : Fetch(r)
    \/ \E r \in ConcReqs : Close(r)

SpecBan == InitBan /\ [][NextBan]_vars

\* the step in which save() of request r on route settles and r is answered 200
completes(r, route) ==
    /\ reqs[r].route = route
    /\ reqs[r].pc = "saving"
    /\ reqs'[r].pc = "done"
    /\ reqs'[r].status = 200

\* the step in which auth's findById of request r resolves
authResolves(r) ==
    /\ reqs[r].pc = "auth"
    /\ reqs'[r].pc # "auth"
    /\ readyState = 1
    /\ reqs[r].token.userId \in UserIds

banInForce(r) ==
    \A u \in UserIds :
        /\ (completes(r, "ban") /\ reqs[r].id = u) => users'[u].isBanned
        /\ (authResolves(r) /\ reqs[r].token.userId = u /\ users[u].isBanned) =>
               (reqs'[r].pc = "done" /\ reqs'[r].status = 403 /\ users' = users)
        /\ (reqs[r].pc = "authenticating" /\ reqs'[r].pc # "authenticating"
               /\ reqs[r].token.userId = u /\ users[u].isBanned) =>
               reqs'[r].user = Anonymous

banLifted(r) ==
    \A u \in UserIds :
        /\ (completes(r, "unban") /\ reqs[r].id = u) =>
               (~users'[u].isBanned /\ users'[u].isActive)
        /\ (authResolves(r) /\ reqs[r].token.userId = u
               /\ ~users[u].isBanned /\ users[u].isActive) =>
               reqs'[r].user = [userId |-> u, role |-> users[u].role]

C22_WitnessLifted ==
    /\ reqs[2].pc = "done"
    /\ reqs[2].route = "consent"
    /\ reqs[2].status = 200
    /\ reqs[1].pc = "done"
    /\ reqs[1].route = "unban"
    /\ reqs[1].status = 200

---------------------------------------------------------------------------
(* SpecAdmin: ban, unban and role requests of the admin and of the user,    *)
(* one of each in flight at a time                                          *)

\* request 1 carries the admin's token, request 2 the token of the user,
\* who is an admin once the admin says so
NextAdmin ==
    \/ PostBan(1, {AdminToken}, UserIds, {0})
    \/ PostBan(2, {UserToken}, UserIds, {0})
    \/ PostUnban(1, {AdminToken}, UserIds)
    \/ PostUnban(2, {UserToken}, UserIds)
    \/ PutRole(1, {AdminToken}, UserIds, Roles)
    \/ PutRole(2, {UserToken}, UserIds, Roles)
    \/ \E r \in ConcReqs : AuthSettles(r)
    \/ \E r \in ConcReqs : UserFound(r)
    \/ \E r \in ConcReqs : UserSaved(r)
    \/ \E r \in ConcReqs : Close(r)

SpecAdmin == InitBan /\ [][NextAdmin]_vars

\* C24 - No account has role admin while isBanned is true.
C24_NoBannedAdmin ==
    \A u \in UserIds : ~(users[u].role = "admin" /\ users[u].isBanned)

\* C25 - At least one account has role admin.
C25_AnAdminRemains ==
    \E u \in UserIds : users[u].role = "admin"

---------------------------------------------------------------------------
(* SpecDeletion: the accounts request and cancel their deletion, one        *)
(* request at a time; an admin may unban an account                         *)

DeletionTokens == {NoToken, [kind |-> "valid", userId |-> 1], UserToken}

NextDeletion ==
    \/ \E r \in Reqs : PostRequestDeletion(r, DeletionTokens)
    \/ \E r \in Reqs : PostCancelDeletion(r, DeletionTokens)
    \/ \E r \in Reqs : AuthSettles(r)
    \/ \E r \in Reqs : UserFound(r)
    \/ \E r \in Reqs : UserSaved(r)
    \/ \E r \in Reqs : Close(r)
    \/ \E u \in UserIds : UnbanUser(u)
    \/ ConnectionLost
    \/ ConnectionRestored

SpecDeletion == Init /\ [][NextDeletion]_vars

\* C27 - A cancel-deletion request with a valid token of an account whose
\* deletion is requested gets past auth, the database being connected, and
\* once answered it is answered 200 with requestedDeletion false and isActive
\* true.
C27_CancelDeletionSucceeds ==
    [][\A r \in Reqs :
          LET u == reqs[r].token.userId
          IN  (reqs[r].route = "cancelDeletion" /\ reqs[r].token.kind = "valid"
                 /\ reqs[r].pc \notin {"idle", "done"} /\ reqs'[r].pc = "done"
                 /\ readyState = 1 /\ users[u].requestedDeletion) =>
              /\ reqs'[r].status = 200
              /\ ~users'[u].requestedDeletion
              /\ users'[u].isActive]_vars

---------------------------------------------------------------------------
(* SpecTempBan: the admin bans the user for a day or for good, the clock    *)
(* advances, the user logs in and sends requests that need auth            *)

\* req.body.duration, in days
BanDurations == {0, 1}

NextTempBan ==
    \/ PostBan(1, {AdminToken}, {2}, BanDurations)
    \/ PostUnban(2, {UserToken}, {2})
    \/ \E r \in ConcReqs : AuthSettles(r)
    \/ \E r \in ConcReqs : UserFound(r)
    \/ \E r \in ConcReqs : UserSaved(r)
    \/ \E r \in ConcReqs : Close(r)
    \/ PostLogin(1, {2})
    \/ \E l \in LoginReqs : FindOneSettles(l)
    \/ \E l \in LoginReqs : CompareSettles(l)
    \/ \E l \in LoginReqs : SaveSettles(l)
    \/ Tick(OneWeek)

SpecTempBan == InitBan /\ [][NextTempBan]_vars

\* the stored banExpires of the account has passed
banExpired(u) == users[u].banExpires # NoDate /\ users[u].banExpires < now

\* C29 - Once the stored banExpires of an account has passed, auth accepts
\* the account's token and login does not answer 403, the database being
\* connected.
C29_TemporaryBanExpires ==
    [][/\ \A r \in ConcReqs :
              (authResolves(r) /\ banExpired(reqs[r].token.userId)) =>
                 reqs'[r].user.userId = reqs[r].token.userId
       /\ \A l \in LoginReqs :
              (logins[l].pc = "finding" /\ logins'[l].pc # "finding" /\ readyState = 1
                 /\ logins[l].email \in UserIds /\ banExpired(logins[l].email)) =>
                 logins'[l].status # 403]_vars

---------------------------------------------------------------------------
(* SpecReport: POST /api/incidents while the accounts change their consent, *)
(* request deletion and are unbanned, and the connection comes and goes     *)

NextReport ==
    \/ \E r \in Reqs : PostIncident(r, DeletionTokens)
    \/ \E r \in Reqs : PostConsent(r, {UserToken})
    \/ \E r \in Reqs : AuthSettles(r)
    \/ \E r \in Reqs : ConsentSettles(r)
    \/ \E r \in Reqs : DeletionStatusSettles(r)
    \/ \E r \in Reqs : IncidentSaved(r)
    \/ \E r \in Reqs : CountSettles(r)
    \/ \E r \in Reqs : UserFound(r)
    \/ \E r \in Reqs : UserSaved(r)
    \/ \E r \in Reqs : Close(r)
    \/ \E u \in UserIds : RequestDeletion(u)
    \/ \E u \in UserIds : UnbanUser(u)
    \/ ConnectionLost
    \/ ConnectionRestored

SpecReport == Init /\ [][NextReport]_vars

\* the step in which request r stores an incident
stores(r) == reqs[r].pc = "savingIncident" /\ incidents' # incidents

\* C23 - POST /api/incidents stores an incident only for an authenticated
\* caller whom requireConsent read with both consents and whose deletion was
\* not requested when checkDeletionStatus ran; reportsCount and points change
\* only for the caller of a request that stored an incident.
C23_StoredOnlyWithConsentAndNoDeletion ==
    [][/\ \A r \in Reqs : stores(r) =>
              /\ reqs[r].user # Anonymous
              /\ reqs[r].consented
              /\ ~reqs[r].deletionPending
       /\ \A u \in UserIds :
              (users'[u].reportsCount # users[u].reportsCount
                 \/ users'[u].points # users[u].points) =>
              \E r \in Reqs : reqs[r].pc = "counting" /\ reqs[r].user.userId = u]_vars

---------------------------------------------------------------------------
(* SpecReset: the password reset routes for one account, two requests in    *)
(* flight at a time, the clock advancing                                    *)

\* the email of account 2 and an email of no account
ResetEmails == {2, 3}

NextReset ==
    \/ \E r \in ConcReqs : PostForgotPassword(r, {0} \cup ResetEmails)
    \/ \E r \in ConcReqs : PostVerifyOtp(r, ResetEmails)
    \/ \E r \in ConcReqs : PostResetPassword(r, ResetEmails)
    \/ \E r \in ConcReqs : EmailFound(r)
    \/ \E r \in ConcReqs : ResetSaved(r)
    \/ \E r \in ConcReqs : Close(r)
    \/ Tick(OneWeek)

SpecReset == InitBan /\ [][NextReset]_vars

\* request r is a reset-password request answered 200
resetSucceeded(r) ==
    /\ reqs[r].route = "resetPassword"
    /\ reqs[r].pc = "done"
    /\ reqs[r].status = 200

\* C26 - Of two reset-password requests for the same account with the same
\* code, in flight together, at most one succeeds.
C26_OtpUsedOnce ==
    \A r1, r2 \in ConcReqs :
        (r1 # r2 /\ resetSucceeded(r1) /\ resetSucceeded(r2)
           /\ reqs[r1].email = reqs[r2].email) => reqs[r1].otp # reqs[r2].otp

---------------------------------------------------------------------------
(* SpecAlerts: the page polls for recent incidents every 30 seconds while   *)
(* incidents are reported and approved                                      *)

\* the page was loaded 30 seconds ago; an incident at the user's location was
\* reported and approved just now
InitAlerts ==
    /\ now = FiveMinutes
    /\ ticks = 0
    /\ incidents =
          <<[id |-> 1, latitude |-> 0, longitude |-> 0, timestamp |-> FiveMinutes,
             moderation |-> "approved", title |-> "reported"]>>
    /\ readyState = 1
    /\ mongoURI = TRUE
    /\ dbConnectionPromise = TRUE
    /\ reqs = [r \in Reqs |-> IdleReq]
    /\ analysis = IdleAnalysis
    /\ migration = IdleMigration
    /\ users = DefaultUsers
    /\ logins = IdleLogins
    /\ failedLogins = NoFailedLogins
    /\ alerts = [IdleAlerts EXCEPT !.nextPoll = FiveMinutes]

NextAlerts ==
    \/ \E r \in Reqs : AlertPoll(r)
    \/ \E r \in Reqs : Fetch(r)
    \/ \E r \in Reqs : AlertResponse(r)
    \/ \E point \in IncidentPoints : ReportIncident(point)
    \/ \E i \in 1..MaxIncidents : Approve(i)
    \/ \E i \in 1..MaxIncidents : Reject(i)
    \/ Tick(ThirtySeconds)
    \/ ConnectionLost
    \/ ConnectionRestored

SpecAlerts == InitAlerts /\ [][NextAlerts]_vars

\* C30 - No two of the alerts shown are for the same incident.
C30_AlertedOnce ==
    \A i, j \in DOMAIN alerts.shown :
        i # j => alerts.shown[i] # alerts.shown[j]

====
